---- MODULE Spec2Model ----
(***************************************************************************)
(* Verification model of the eclipse-timer engine                          *)
(* (packages/engine: math, geo, time and circumstances).                   *)
(*                                                                         *)
(* Number representation.  A JavaScript number is an integer in fixed      *)
(* point, or one of the two sentinels NaN and Infinity.                    *)
(*   - lengths in the fundamental plane (x, y, l1, l2, xi, eta, zeta,      *)
(*     delta, L1obs, L2obs) count 1/EarthRadius of an Earth radius;        *)
(*     tanF1 and tanF2 have the same denominator;                          *)
(*   - solver times (tHours) count ticks; the scan steps and the bisection *)
(*     tolerance are whole numbers of ticks;                               *)
(*   - real-valued milliseconds count 1/SubPerMs of a millisecond, and one *)
(*     tick is SubPerTick of these, so that an instant generally carries a *)
(*     sub-millisecond fraction for the Date constructor to clip.          *)
(* An optional value (T | undefined) is <<>> when undefined, <<v>> else.   *)
(***************************************************************************)
EXTENDS Integers, Sequences, FiniteSets, TLC

----------------------------------------------------------------------------
(* Numbers *)

NaN == -999999999
Infinity == 999999999

isFinite(v) == v # NaN /\ v # Infinity

Plus(a, b) == IF isFinite(a) /\ isFinite(b) THEN a + b ELSE NaN
Minus(a, b) == IF isFinite(a) /\ isFinite(b) THEN a - b ELSE NaN
Times(a, b) == IF isFinite(a) /\ isFinite(b) THEN a * b ELSE NaN
abs(a) == IF ~isFinite(a) THEN a ELSE IF a < 0 THEN -a ELSE a

(* a < b on numbers: false as soon as one side is NaN *)
Less(a, b) ==
  /\ a # NaN
  /\ b # NaN
  /\ a < b

None == <<>>
Some(v) == <<v>>
isNumber(opt) == opt # None

----------------------------------------------------------------------------
(* Bounds and scaled program constants *)

EarthRadius == 8
HalfWindowSteps == 2
SubPerMs == 4
SubPerTick == 3

stepBracket == 8
stepFine == 4
tol == 2
maxIterDefault == 100

tMin == -(HalfWindowSteps * stepBracket)
tMax == HalfWindowSteps * stepBracket

earthEquatorialRadiusM == 6378137

----------------------------------------------------------------------------
(* math/poly.ts *)

RECURSIVE horner(_, _, _, _)
horner(coeffs, t, i, acc) ==
  IF i < 1 THEN acc
  ELSE horner(coeffs, t, i - 1, Plus(Times(acc, t), coeffs[i]))

evalPolyHighFirst(coeffs, t) ==
  horner([i \in 1..Len(coeffs) |-> coeffs[Len(coeffs) + 1 - i]], t, Len(coeffs), 0)

evalPoly(coeffs, t) == horner(coeffs, t, Len(coeffs), 0)

----------------------------------------------------------------------------
(* geo/coords.ts.  Sines and cosines are exact at the multiples of 90      *)
(* degrees, which are the only angles the inputs take; the observers are   *)
(* equatorial, where the prime vertical radius N is exactly one radius.    *)

sinDeg(a) ==
  IF ~isFinite(a) THEN NaN
  ELSE CASE a % 360 = 0 -> 0
         [] a % 360 = 90 -> 1
         [] a % 360 = 180 -> 0
         [] a % 360 = 270 -> -1

cosDeg(a) ==
  IF ~isFinite(a) THEN NaN
  ELSE CASE a % 360 = 0 -> 1
         [] a % 360 = 90 -> 0
         [] a % 360 = 180 -> -1
         [] a % 360 = 270 -> 0

observerToFundamental(latDeg, lonDeg, dDeg, muDeg, elevM) ==
  LET H == Plus(muDeg, lonDeg)
      sinLat == sinDeg(latDeg)
      cosLat == cosDeg(latDeg)
      h == (elevM * EarthRadius) \div earthEquatorialRadiusM
      N == CASE sinLat = 0 -> EarthRadius
      rhoCosPhiPrime == (N + h) * cosLat
      rhoSinPhiPrime == (N + h) * sinLat
      sinD == sinDeg(dDeg)
      cosD == cosDeg(dDeg)
      sinH == sinDeg(H)
      cosH == cosDeg(H)
  IN [xi |-> Times(rhoCosPhiPrime, sinH),
      eta |-> Minus(Times(rhoSinPhiPrime, cosD),
                    Times(Times(rhoCosPhiPrime, cosH), sinD)),
      zeta |-> Plus(Times(rhoSinPhiPrime, sinD),
                    Times(Times(rhoCosPhiPrime, cosH), cosD))]

----------------------------------------------------------------------------
(* circumstances/functions.ts *)

hypot(dx, dy) ==
  IF ~isFinite(dx) \/ ~isFinite(dy) THEN NaN
  ELSE IF dy = 0 THEN abs(dx)
  ELSE IF dx = 0 THEN abs(dy)
  ELSE LET m == abs(dx) + abs(dy)
       IN CHOOSE r \in 0..m : r * r <= dx * dx + dy * dy
                              /\ dx * dx + dy * dy < (r + 1) * (r + 1)

(* zeta * tanF, with tanF counted in 1/EarthRadius *)
scaleTan(zeta, tanF) ==
  IF isFinite(zeta) /\ isFinite(tanF) THEN (zeta * tanF) \div EarthRadius ELSE NaN

evaluateAtT(e, o, tHours) ==
  LET x == evalPoly(e.x, tHours)
      y == evalPoly(e.y, tHours)
      d == evalPoly(e.d, tHours)
      mu == evalPoly(e.mu, tHours)
      l1 == evalPoly(e.l1, tHours)
      l2 == evalPoly(e.l2, tHours)
      f == observerToFundamental(o.latDeg, o.lonDeg, d, mu,
                                 IF o.elevM = None THEN 0 ELSE o.elevM[1])
      dx == Minus(x, f.xi)
      dy == Minus(y, f.eta)
  IN [tHours |-> tHours,
      delta |-> hypot(dx, dy),
      L1obs |-> Minus(l1, scaleTan(f.zeta, e.tanF1)),
      L2obs |-> Minus(l2, scaleTan(f.zeta, e.tanF2))]

fPenumbra(v) == Minus(v.delta, v.L1obs)

fUmbraAbs(v) == Minus(v.delta, abs(v.L2obs))

evaluateShadowMetricsAtT(e, o, tHours) ==
  LET v == evaluateAtT(e, o, tHours)
  IN [tHours |-> tHours,
      delta |-> v.delta,
      L1obs |-> v.L1obs,
      L2obs |-> v.L2obs,
      penumbra |-> fPenumbra(v),
      umbraAbs |-> fUmbraAbs(v)]

----------------------------------------------------------------------------
(* math/bracket.ts.  f is a function from ticks to numbers. *)

half(n) == CASE n % 2 = 0 -> n \div 2

RECURSIVE findBracketsLoop(_, _, _, _, _)
findBracketsLoop(f, prevT, tEnd, step, out) ==
  LET t == prevT + step
      prevF == f[prevT]
      ft == f[t]
      exact == [a |-> prevT - half(step), b |-> prevT + half(step),
                fa |-> f[prevT - half(step)], fb |-> f[prevT + half(step)]]
      change == [a |-> prevT, b |-> t, fa |-> prevF, fb |-> ft]
  IN IF t > tEnd THEN out
     ELSE findBracketsLoop(f, t, tEnd, step,
            IF isFinite(prevF) /\ isFinite(ft)
            THEN IF prevF = 0 THEN Append(out, exact)
                 ELSE IF prevF * ft < 0 THEN Append(out, change)
                 ELSE out
            ELSE out)

findBrackets(f, tStart, tEnd, step) == findBracketsLoop(f, tStart, tEnd, step, <<>>)

----------------------------------------------------------------------------
(* math/root.ts.  The result is <<>> for null.  A run also records the    *)
(* midpoints at which f was evaluated and the interval it ended with.      *)

bisectEnd(ret, mids, lo, hi) == [ret |-> ret, mids |-> mids, lo |-> lo, hi |-> hi]

RECURSIVE bisectLoopWrongHalf(_, _, _, _, _, _, _, _)
bisectLoopWrongHalf(f, lo, hi, flo, tolerance, maxIter, i, mids) ==
  LET mid == half(lo + hi)
      fmid == f[mid]
  IN IF i >= maxIter
     THEN bisectEnd(Some([tHours |-> mid, ok |-> FALSE, iterations |-> maxIter]),
                    mids, lo, hi)
     ELSE IF ~isFinite(fmid) THEN bisectEnd(None, Append(mids, mid), lo, hi)
     ELSE IF abs(hi - lo) <= tolerance \/ fmid = 0
     THEN bisectEnd(Some([tHours |-> mid, ok |-> TRUE, iterations |-> i + 1]),
                    Append(mids, mid), lo, hi)
     ELSE IF flo * fmid > 0
     THEN bisectLoopWrongHalf(f, lo, mid, flo, tolerance, maxIter, i + 1, Append(mids, mid))
     ELSE bisectLoopWrongHalf(f, mid, hi, fmid, tolerance, maxIter, i + 1, Append(mids, mid))

RECURSIVE bisectLoopLooseTol(_, _, _, _, _, _, _, _)
bisectLoopLooseTol(f, lo, hi, flo, tolerance, maxIter, i, mids) ==
  LET mid == half(lo + hi)
      fmid == f[mid]
  IN IF i >= maxIter
     THEN bisectEnd(Some([tHours |-> mid, ok |-> FALSE, iterations |-> maxIter]),
                    mids, lo, hi)
     ELSE IF ~isFinite(fmid) THEN bisectEnd(None, Append(mids, mid), lo, hi)
     ELSE IF abs(hi - lo) <= 4 * tolerance \/ fmid = 0
     THEN bisectEnd(Some([tHours |-> mid, ok |-> TRUE, iterations |-> i + 1]),
                    Append(mids, mid), lo, hi)
     ELSE IF flo * fmid <= 0
     THEN bisectLoopLooseTol(f, lo, mid, flo, tolerance, maxIter, i + 1, Append(mids, mid))
     ELSE bisectLoopLooseTol(f, mid, hi, fmid, tolerance, maxIter, i + 1, Append(mids, mid))

RECURSIVE bisectLoopUnchecked(_, _, _, _, _, _, _, _)
bisectLoopUnchecked(f, lo, hi, flo, tolerance, maxIter, i, mids) ==
  LET mid == half(lo + hi)
      fmid == f[mid]
  IN IF i >= maxIter
     THEN bisectEnd(Some([tHours |-> mid, ok |-> FALSE, iterations |-> maxIter]),
                    mids, lo, hi)
     ELSE IF abs(hi - lo) <= tolerance \/ fmid = 0
     THEN bisectEnd(Some([tHours |-> mid, ok |-> TRUE, iterations |-> i + 1]),
                    Append(mids, mid), lo, hi)
     ELSE IF flo * fmid <= 0
     THEN bisectLoopUnchecked(f, lo, mid, flo, tolerance, maxIter, i + 1, Append(mids, mid))
     ELSE bisectLoopUnchecked(f, mid, hi, fmid, tolerance, maxIter, i + 1, Append(mids, mid))

RECURSIVE bisectLoop(_, _, _, _, _, _, _, _)
bisectLoop(f, lo, hi, flo, tolerance, maxIter, i, mids) ==
  LET mid == half(lo + hi)
      fmid == f[mid]
  IN IF i >= maxIter
     THEN bisectEnd(Some([tHours |-> mid, ok |-> FALSE, iterations |-> maxIter]),
                    mids, lo, hi)
     ELSE IF ~isFinite(fmid) THEN bisectEnd(None, Append(mids, mid), lo, hi)
     ELSE IF abs(hi - lo) <= tolerance \/ fmid = 0
     THEN bisectEnd(Some([tHours |-> mid, ok |-> TRUE, iterations |-> i + 1]),
                    Append(mids, mid), lo, hi)
     ELSE IF flo * fmid <= 0
     THEN bisectLoop(f, lo, mid, flo, tolerance, maxIter, i + 1, Append(mids, mid))
     ELSE bisectLoop(f, mid, hi, fmid, tolerance, maxIter, i + 1, Append(mids, mid))

bisectRunHighFirst(f, a, b, tolerance, maxIter) ==
  LET fa == f[a]
      fb == f[b]
  IN IF ~isFinite(fa) \/ ~isFinite(fb) THEN bisectEnd(None, <<>>, a, b)
     ELSE IF fb = 0
     THEN bisectEnd(Some([tHours |-> b, ok |-> TRUE, iterations |-> 0]), <<>>, a, b)
     ELSE IF fa = 0
     THEN bisectEnd(Some([tHours |-> a, ok |-> TRUE, iterations |-> 0]), <<>>, a, b)
     ELSE IF fa * fb > 0 THEN bisectEnd(None, <<>>, a, b)
     ELSE bisectLoop(f, a, b, fa, tolerance, maxIter, 0, <<>>)

bisectRun(f, a, b, tolerance, maxIter) ==
  LET fa == f[a]
      fb == f[b]
  IN IF ~isFinite(fa) \/ ~isFinite(fb) THEN bisectEnd(None, <<>>, a, b)
     ELSE IF fa = 0
     THEN bisectEnd(Some([tHours |-> a, ok |-> TRUE, iterations |-> 0]), <<>>, a, b)
     ELSE IF fb = 0
     THEN bisectEnd(Some([tHours |-> b, ok |-> TRUE, iterations |-> 0]), <<>>, a, b)
     ELSE IF fa * fb > 0 THEN bisectEnd(None, <<>>, a, b)
     ELSE bisectLoop(f, a, b, fa, tolerance, maxIter, 0, <<>>)

bisectRoot(f, a, b, tolerance, maxIter) == bisectRun(f, a, b, tolerance, maxIter).ret

----------------------------------------------------------------------------
(* circumstances/compute.ts: scanMin and solveContacts *)

RECURSIVE scanMinLoop(_, _, _, _, _, _)
scanMinLoop(f, t, b, step, bestT, bestV) ==
  IF t > b THEN [t |-> bestT, val |-> bestV]
  ELSE IF isFinite(f[t]) /\ f[t] < bestV
       THEN scanMinLoop(f, t + step, b, step, t, f[t])
       ELSE scanMinLoop(f, t + step, b, step, bestT, bestV)

scanMin(f, a, b, stepHours) == scanMinLoop(f, a, b, stepHours, a, Infinity)

(* every tick at which a metric may be evaluated *)
Grid == (tMin - stepBracket)..(tMax + stepBracket)

(* the roots sought with a limit of two iterations *)
mapBisectTwoIterations(f, brackets) ==
  [i \in 1..Len(brackets) |->
     bisectRoot(f, brackets[i].a, brackets[i].b, tol, 2)]

mapBisect(f, brackets) ==
  [i \in 1..Len(brackets) |->
     bisectRoot(f, brackets[i].a, brackets[i].b, tol, maxIterDefault)]

rootsOf(rootResults) ==
  LET kept == SelectSeq(rootResults,
                LAMBDA r : r # None /\ r[1].ok /\ isFinite(r[1].tHours))
      hours == [i \in 1..Len(kept) |-> kept[i][1].tHours]
  IN SortSeq(hours, LAMBDA a, b : a < b)

firstRoot(roots) == IF Len(roots) >= 1 THEN Some(roots[1]) ELSE None
(* the last root also when it is the only one *)
lastRootOfAny(roots) == IF Len(roots) >= 1 THEN Some(roots[Len(roots)]) ELSE None

lastRoot(roots) == IF Len(roots) >= 2 THEN Some(roots[Len(roots)]) ELSE None

solverVisible(c1, c4) ==
  /\ isNumber(c1) /\ isFinite(c1[1])
  /\ isNumber(c4) /\ isFinite(c4[1])

preliminaryKind(visible, c1, c2, c3, c4) ==
  IF ~visible THEN "none"
  ELSE IF /\ isNumber(c1) /\ isFinite(c1[1])
          /\ isNumber(c4) /\ isFinite(c4[1])
          /\ isNumber(c2) /\ isFinite(c2[1])
          /\ isNumber(c3) /\ isFinite(c3[1])
          /\ c2[1] > c1[1]
          /\ c3[1] < c4[1]
       THEN "total"
       ELSE "partial"

RECURSIVE fallbackLoop(_, _, _, _)
fallbackLoop(metrics, t, bestDelta, bestTFallback) ==
  IF t > tMax THEN bestTFallback
  ELSE IF isFinite(metrics[t].delta) /\ metrics[t].delta < bestDelta
       THEN fallbackLoop(metrics, t + stepBracket, metrics[t].delta, t)
       ELSE fallbackLoop(metrics, t + stepBracket, bestDelta, bestTFallback)

umbralBranch(visible, c2, c3) ==
  visible /\ isNumber(c2) /\ isNumber(c3) /\ c3[1] > c2[1]

penumbralBranch(visible, c1, c4) ==
  visible /\ isNumber(c1) /\ isNumber(c4) /\ c4[1] > c1[1]

(* brackets and roots of one metric over the window *)
solveRoots(f) ==
  LET brackets == findBrackets(f, tMin, tMax, stepBracket)
  IN [bracketsCount |-> Len(brackets),
      roots |-> rootsOf(mapBisect(f, brackets))]

chosenBranch(visible, c1, c2, c3, c4) ==
  IF umbralBranch(visible, c2, c3) THEN "umbral"
  ELSE IF penumbralBranch(visible, c1, c4) THEN "penumbral"
  ELSE "fallback"

(* the scan of the chosen branch; the fallback has no bestMetric *)
scanOfBranch(metricsAt, pen, umb, branch, c1, c2, c3, c4) ==
  IF branch = "umbral" THEN scanMin(umb, c2[1], c3[1], stepFine)
  ELSE IF branch = "penumbral" THEN scanMin(pen, c1[1], c4[1], stepFine)
  ELSE [t |-> fallbackLoop(metricsAt, tMin, Infinity, 0), val |-> NaN]

finalKind(branch, visible, maxEval) ==
  IF branch = "umbral"
  THEN IF Less(maxEval.L2obs, 0) THEN "total" ELSE "annular"
  ELSE IF branch = "penumbral" THEN "partial"
  ELSE IF visible THEN "partial" ELSE "none"

solved(metricsAt, pen, umb, c1, c2, c3, c4, visible, branch, r, solverDebug) ==
  [contacts |-> [c1 |-> c1, c2 |-> c2, max |-> Some(r.t), c3 |-> c3, c4 |-> c4],
   kindAtLocation |-> finalKind(branch, visible, metricsAt[r.t]),
   maxEval |-> Some(metricsAt[r.t]),
   debug |-> [penBracketsCount |-> solverDebug.pen.bracketsCount,
              umbBracketsCount |-> solverDebug.umb.bracketsCount,
              penRoots |-> solverDebug.pen.roots,
              umbRoots |-> solverDebug.umb.roots,
              branch |-> branch,
              preliminary |-> preliminaryKind(visible, c1, c2, c3, c4),
              bestMetric |-> IF branch = "fallback" THEN None ELSE Some(r.val)]]

selectMax(metricsAt, pen, umb, c1, c2, c3, c4, visible, branch, solverDebug) ==
  solved(metricsAt, pen, umb, c1, c2, c3, c4, visible, branch,
         scanOfBranch(metricsAt, pen, umb, branch, c1, c2, c3, c4), solverDebug)

classify(metricsAt, pen, umb, c1, c2, c3, c4, solverDebug) ==
  selectMax(metricsAt, pen, umb, c1, c2, c3, c4, solverVisible(c1, c4),
            chosenBranch(solverVisible(c1, c4), c1, c2, c3, c4), solverDebug)

contactsOfRoots(metricsAt, pen, umb, penSolved, umbSolved) ==
  classify(metricsAt, pen, umb,
           firstRoot(penSolved.roots), firstRoot(umbSolved.roots),
           lastRoot(umbSolved.roots), lastRoot(penSolved.roots),
           [pen |-> penSolved, umb |-> umbSolved])

solveMetrics(metricsAt, pen, umb) ==
  contactsOfRoots(metricsAt, pen, umb, solveRoots(pen), solveRoots(umb))

solveOver(metricsAt) ==
  solveMetrics(metricsAt,
               [t \in Grid |-> metricsAt[t].penumbra],
               [t \in Grid |-> metricsAt[t].umbraAbs])

solveContacts(e, o) ==
  solveOver([t \in Grid |-> evaluateShadowMetricsAtT(e, o, t)])

----------------------------------------------------------------------------
(* Dates.  A time value is [valid, day, sub]: day whole days since the     *)
(* epoch and sub the rest, in 1/SubPerMs ms, 0 <= sub < one day; the value *)
(* is negative exactly when day < 0.  A Date holds a clipped time value,   *)
(* [valid, day, ms].                                                       *)

MsPerDay == 86400000
MaxDays == 100000000

InvalidDate == [valid |-> FALSE, day |-> 0, ms |-> 0]
InvalidTime == [valid |-> FALSE, day |-> 0, sub |-> 0]

normTime(day, sub) ==
  [valid |-> TRUE,
   day |-> day + (sub \div (MsPerDay * SubPerMs)),
   sub |-> sub % (MsPerDay * SubPerMs)]

(* TimeClip: range check, then ToIntegerOrInfinity (toward zero) *)
TimeClip(tv) ==
  IF ~tv.valid THEN InvalidDate
  ELSE IF tv.day < -MaxDays \/ tv.day > MaxDays \/ (tv.day = MaxDays /\ tv.sub > 0)
  THEN InvalidDate
  ELSE IF tv.day >= 0
  THEN [valid |-> TRUE, day |-> tv.day, ms |-> tv.sub \div SubPerMs]
  ELSE LET up == -((-tv.sub) \div SubPerMs)
       IN IF up = MsPerDay
          THEN [valid |-> TRUE, day |-> tv.day + 1, ms |-> 0]
          ELSE [valid |-> TRUE, day |-> tv.day, ms |-> up]

newDate(tv) == TimeClip(tv)

getTime(d) ==
  IF ~d.valid THEN InvalidTime
  ELSE [valid |-> TRUE, day |-> d.day, sub |-> d.ms * SubPerMs]

(* days since 1970-01-01 of the civil date y-m-d, m in 1..12 *)
daysFromCivil(y, m, d) ==
  LET yy == IF m <= 2 THEN y - 1 ELSE y
      era == yy \div 400
      yoe == yy - era * 400
      mp == IF m > 2 THEN m - 3 ELSE m + 9
      doy == ((153 * mp + 2) \div 5) + d - 1
      doe == yoe * 365 + (yoe \div 4) - (yoe \div 100) + doy
  IN era * 146097 + doe - 719468

civilFromDays(days) ==
  LET z == days + 719468
      era == z \div 146097
      doe == z - era * 146097
      yoe == (doe - (doe \div 1460) + (doe \div 36524) - (doe \div 146096)) \div 365
      doy == doe - (365 * yoe + (yoe \div 4) - (yoe \div 100))
      mp == (5 * doy + 2) \div 153
      d == doy - ((153 * mp + 2) \div 5) + 1
      m == IF mp < 10 THEN mp + 3 ELSE mp - 9
  IN [year |-> yoe + era * 400 + (IF m <= 2 THEN 1 ELSE 0), month |-> m, day |-> d]

(* Date.UTC(year, month, date, hours, minutes, seconds, ms) *)
DateUTC(Y, M, D, hh, mm, s, ms) ==
  IF \E a \in {Y, M, D, hh, mm, s, ms} : ~isFinite(a) THEN InvalidDate
  ELSE LET yr == IF 0 <= Y /\ Y <= 99 THEN 1900 + Y ELSE Y
           ym == yr + (M \div 12)
           mn == M % 12
           day == daysFromCivil(ym, mn + 1, 1) + D - 1
           time == hh * 3600000 + mm * 60000 + s * 1000 + ms
       IN TimeClip([valid |-> TRUE,
                    day |-> day + (time \div MsPerDay),
                    sub |-> (time % MsPerDay) * SubPerMs])

(* a formatter that prints an invalid date instead of throwing *)
toISOStringLenient(d) ==
  IF ~d.valid
  THEN Some([year |-> 0, month |-> 0, day |-> 0, hour |-> 0, minute |-> 0,
             second |-> 0, ms |-> 0])
  ELSE LET c == civilFromDays(d.day)
       IN Some([year |-> c.year, month |-> c.month, day |-> c.day,
                hour |-> d.ms \div 3600000,
                minute |-> (d.ms % 3600000) \div 60000,
                second |-> (d.ms % 60000) \div 1000,
                ms |-> d.ms % 1000])

(* Date.prototype.toISOString; <<>> stands for the RangeError it throws *)
toISOString(d) ==
  IF ~d.valid THEN None
  ELSE LET c == civilFromDays(d.day)
       IN Some([year |-> c.year, month |-> c.month, day |-> c.day,
                hour |-> d.ms \div 3600000,
                minute |-> (d.ms % 3600000) \div 60000,
                second |-> (d.ms % 60000) \div 1000,
                ms |-> d.ms % 1000])

(* Date.parse of an ISO string *)
parseUtc(iso) ==
  DateUTC(iso.year, iso.month - 1, iso.day, iso.hour, iso.minute, iso.second, iso.ms)

----------------------------------------------------------------------------
(* time/t0.ts and time/utc.ts.  dateYmd is the list of the pieces between  *)
(* the dashes; a piece is <<>> for the empty string and <<n>> for a piece  *)
(* that Number() turns into n (NaN for text that is not a number).         *)

Number(piece) == IF piece = <<>> THEN 0 ELSE piece[1]

pieceAt(dateYmd, i) == IF i <= Len(dateYmd) THEN dateYmd[i] ELSE <<>>

SubPerHour == 3600000 * SubPerMs

t0TtDate(e) ==
  LET Y == Number(pieceAt(e.dateYmd, 1))
      M == Number(pieceAt(e.dateYmd, 2))
      D == Number(pieceAt(e.dateYmd, 3))
      total == e.t0TtHours
      fin == isFinite(total)
      hh == IF fin THEN total \div SubPerHour ELSE NaN
      mm == IF fin THEN (total - hh * SubPerHour) \div (60000 * SubPerMs) ELSE NaN
      ss == IF fin THEN total - hh * SubPerHour - mm * 60000 * SubPerMs ELSE NaN
      sInt == IF fin THEN ss \div (1000 * SubPerMs) ELSE NaN
      ms == IF fin
            THEN (2 * (ss - sInt * 1000 * SubPerMs) + SubPerMs) \div (2 * SubPerMs)
            ELSE NaN
  IN DateUTC(Y, IF isFinite(M) THEN M - 1 ELSE NaN, D, hh, mm, sInt, ms)

(* hours turned into seconds instead of milliseconds *)
ttAtTHoursSeconds(e, tHoursFromT0) ==
  LET t0 == getTime(t0TtDate(e))
  IN IF ~t0.valid \/ ~isFinite(tHoursFromT0) THEN newDate(InvalidTime)
     ELSE newDate(normTime(t0.day, t0.sub + (tHoursFromT0 * SubPerTick) \div 1000))

ttAtTHours(e, tHoursFromT0) ==
  LET t0 == getTime(t0TtDate(e))
  IN IF ~t0.valid \/ ~isFinite(tHoursFromT0) THEN newDate(InvalidTime)
     ELSE newDate(normTime(t0.day, t0.sub + tHoursFromT0 * SubPerTick))

ttToUtcUsingDeltaT(ttDate, e) ==
  LET tt == getTime(ttDate)
  IN IF ~tt.valid \/ ~isFinite(e.deltaTSeconds) THEN newDate(InvalidTime)
     ELSE newDate(normTime(tt.day, tt.sub - e.deltaTSeconds))

toIsoUtc(d) == toISOString(d)

----------------------------------------------------------------------------
(* circumstances/compute.ts: computeCircumstances.                         *)
(* durationSeconds counts 1/SubPerMs ms; magnitude is the fraction         *)
(* num/den.  outcome is "RangeError" when toISOString threw.               *)

min2(a, b) == IF a < b THEN a ELSE b
max2(a, b) == IF a > b THEN a ELSE b

(* the raw ratio without the clamp *)
partialMagnitudeUnclamped(L1obs, delta) ==
  IF ~isFinite(delta) THEN [num |-> NaN, den |-> 1]
  ELSE [num |-> L1obs - delta, den |-> L1obs]

(* Math.max(0, Math.min(1, (L1obs - delta) / L1obs)), L1obs > 0 *)
partialMagnitude(L1obs, delta) ==
  IF ~isFinite(delta) THEN [num |-> NaN, den |-> 1]
  ELSE [num |-> max2(0, min2(L1obs, L1obs - delta)), den |-> L1obs]

(* a guard that tests the truthiness of tHours, so that 0 counts as absent *)
toUtcIsoFalsy(e, tHours) ==
  IF tHours = None \/ ~isFinite(tHours[1]) \/ tHours[1] = 0
  THEN [throws |-> FALSE, value |-> None]
  ELSE LET tt == ttAtTHours(e, tHours[1])
           utc == ttToUtcUsingDeltaT(tt, e)
           str == toIsoUtc(utc)
       IN [throws |-> str = None, value |-> str]

(* toUtcIso: value is <<>> for undefined; throws when toISOString threw *)
toUtcIso(e, tHours) ==
  IF tHours = None \/ ~isFinite(tHours[1])
  THEN [throws |-> FALSE, value |-> None]
  ELSE LET tt == ttAtTHours(e, tHours[1])
           utc == ttToUtcUsingDeltaT(tt, e)
           str == toIsoUtc(utc)
       IN [throws |-> str = None, value |-> str]

(* a test of the first contact alone *)
resultVisibleByFirstContact(contacts) == isNumber(contacts.c1)

resultVisible(contacts) == isNumber(contacts.c1) /\ isNumber(contacts.c4)

(* the difference in hours, without the conversion to seconds *)
durationOfNoUnits(contacts) ==
  IF isNumber(contacts.c2) /\ isNumber(contacts.c3) /\ contacts.c3[1] > contacts.c2[1]
  THEN Some(contacts.c3[1] - contacts.c2[1])
  ELSE None

durationOf(contacts) ==
  IF isNumber(contacts.c2) /\ isNumber(contacts.c3) /\ contacts.c3[1] > contacts.c2[1]
  THEN Some((contacts.c3[1] - contacts.c2[1]) * SubPerTick)
  ELSE None

magnitudeOf(visible, v, kindAtLocation) ==
  IF ~visible \/ ~isFinite(v.L1obs) \/ v.L1obs <= 0 THEN None
  ELSE IF kindAtLocation \in {"total", "annular"} THEN Some([num |-> 1, den |-> 1])
  ELSE Some(partialMagnitude(v.L1obs, v.delta))

(* maxEval ?? evaluateShadowMetricsAtT(e, o, fallbackMaxT) *)
maxEvalOrFallback(e, o, s) ==
  IF s.maxEval # None THEN s.maxEval[1]
  ELSE evaluateShadowMetricsAtT(e, o,
         IF isNumber(s.contacts.max) /\ isFinite(s.contacts.max[1])
         THEN s.contacts.max[1] ELSE 0)

contactsUtc(e, contacts) ==
  [c1 |-> toUtcIso(e, contacts.c1),
   c2 |-> toUtcIso(e, contacts.c2),
   max |-> toUtcIso(e, contacts.max),
   c3 |-> toUtcIso(e, contacts.c3),
   c4 |-> toUtcIso(e, contacts.c4)]

(* the strings of the debug block, computed while the result is built *)
debugDates(t0tt, e) ==
  [t0Tt |-> toISOString(t0tt),
   t0UtcApprox |-> toISOString(ttToUtcUsingDeltaT(t0tt, e))]

circumstances(e, s, v, utc, visible, dates) ==
  IF \/ utc.c1.throws \/ utc.c2.throws \/ utc.max.throws
     \/ utc.c3.throws \/ utc.c4.throws
     \/ dates.t0Tt = None \/ dates.t0UtcApprox = None
  THEN [outcome |-> "RangeError"]
  ELSE [outcome |-> "returned",
        eclipseId |-> e.id,
        visible |-> visible,
        kindAtLocation |-> IF visible THEN s.kindAtLocation ELSE "none",
        c1Utc |-> utc.c1.value,
        c2Utc |-> utc.c2.value,
        maxUtc |-> utc.max.value,
        c3Utc |-> utc.c3.value,
        c4Utc |-> utc.c4.value,
        durationSeconds |-> durationOf(s.contacts),
        magnitude |-> magnitudeOf(visible, v, s.kindAtLocation),
        debug |-> [t0Tt |-> dates.t0Tt,
                   t0UtcApprox |-> dates.t0UtcApprox,
                   deltaTSeconds |-> e.deltaTSeconds,
                   contacts |-> s.contacts,
                   maxEval |-> v,
                   solver |-> s.debug]]

circumstancesOf(e, o, s) ==
  circumstances(e, s, maxEvalOrFallback(e, o, s), contactsUtc(e, s.contacts),
                resultVisible(s.contacts), debugDates(t0TtDate(e), e))

computeCircumstances(e, o) == circumstancesOf(e, o, solveContacts(e, o))

----------------------------------------------------------------------------
(* Inputs *)

record(dateYmd, t0, dT, tan1, tan2, x, y, d, mu, l1, l2) ==
  [id |-> "e", dateYmd |-> dateYmd, t0TtHours |-> t0, deltaTSeconds |-> dT,
   tanF1 |-> tan1, tanF2 |-> tan2,
   x |-> x, y |-> y, d |-> d, mu |-> mu, l1 |-> l1, l2 |-> l2]

ymd(y, m, d) == <<Some(y), Some(m), Some(d)>>

(* 2027-08-02, t0 = 10 h TT, deltaT = 71.7 s *)
sampleDate == ymd(2027, 8, 2)
sampleT0 == 10 * SubPerHour
sampleDeltaT == 71700 * SubPerMs

geometry(tan1, tan2, x0, x1, y0, l10, l11, l20) ==
  record(sampleDate, sampleT0, sampleDeltaT, tan1, tan2,
         <<x0, x1>>, <<y0>>, <<0>>, <<0>>, <<l10, l11>>, <<l20>>)

(* constant penumbral radius, and a radius that grows with time *)
GeometryRecords ==
  { geometry(tan1, tan2, x0, x1, y0, l10, 0, l20) :
      tan1 \in {0, 1}, tan2 \in {0, 1},
      x0 \in {0, 8}, x1 \in {0, 1, 4}, y0 \in {0, 1},
      l10 \in {0, 2, 8, 10}, l20 \in {-10, -3, 0, 1, 3} }
  \cup
  { geometry(1, 1, x0, x1, 0, l10, 1, l20) :
      x0 \in {0, 8}, x1 \in {0, 1, 4},
      l10 \in {0, 2, 8, 10}, l20 \in {-10, -3, 0, 1, 3} }

MalformedPayloads == { <<>>, <<NaN>>, <<0>> }

MalformedRecords ==
  { record(sampleDate, sampleT0, sampleDeltaT, tan1, tan2, p, p, p, p, p, p) :
      tan1 \in {0, 1}, tan2 \in {0, 1}, p \in MalformedPayloads }

(* dateYmd values: well formed, with pieces missing or empty, and text *)
DateYmds ==
  { ymd(1970, 1, 1), ymd(1969, 12, 31), ymd(2031, 12, 31), ymd(50, 1, 1),
    <<Some(2024), Some(4)>>, <<Some(2024)>>, <<None>>,
    <<Some(2024), None, Some(8)>>,
    <<Some(NaN), Some(NaN), Some(NaN)>>, <<Some(2024), Some(NaN), Some(8)>> }

(* t0TtHours, in 1/SubPerMs ms: 0 h, 10 h, 23:59:59.999 and a fraction, NaN *)
T0Values == { 0, sampleT0, 24 * SubPerHour - 1, NaN }

(* deltaTSeconds, in 1/SubPerMs ms: 0, half a millisecond, -2.2 s *)
DeltaTValues == { 0, SubPerMs \div 2, -(2200 * SubPerMs) }

DateRecords ==
  { record(date, t0, dT, 1, 1, <<0, 1>>, <<0>>, <<0>>, <<0>>, <<l10, 0>>, <<l20>>) :
      date \in DateYmds, t0 \in T0Values, dT \in DeltaTValues,
      l10 \in {0, 10}, l20 \in {-5, 1} }

Records == GeometryRecords \cup MalformedRecords \cup DateRecords

Observers ==
  { [latDeg |-> 0, lonDeg |-> lon, elevM |-> elev] :
      lon \in {0, 90, 180}, elev \in {None, Some(earthEquatorialRadiusM)} }

----------------------------------------------------------------------------
(* The state machine: a caller holds a record e and an observer o and      *)
(* calls one of the exported functions on them.                            *)

VARIABLES e, o, pc, result

vars == <<e, o, pc, result>>

Init ==
  /\ e \in Records
  /\ o \in Observers
  /\ pc = "call"
  /\ result = [outcome |-> "pending"]

ComputeCircumstances ==
  /\ pc = "call"
  /\ result' = computeCircumstances(e, o)
  /\ pc' = "done"
  /\ UNCHANGED <<e, o>>

T0TtDate ==
  /\ pc = "call"
  /\ result' = [outcome |-> "t0TtDate", date |-> t0TtDate(e)]
  /\ pc' = "t0"
  /\ UNCHANGED <<e, o>>

Next == ComputeCircumstances \/ T0TtDate

Spec == Init /\ [][Next]_vars

(* The same calls on records whose shadow moves across the plane         *)
MovingRecords ==
  { r \in GeometryRecords \cup DateRecords : Len(r.x) = 2 /\ r.x[2] # 0 }

InitMoving ==
  /\ e \in MovingRecords
  /\ o \in Observers
  /\ pc = "call"
  /\ result = [outcome |-> "pending"]

SpecMoving == InitMoving /\ [][Next]_vars

(* ... and on records shaped like the catalog's: proper cones, a constant *)
(* penumbral radius that exceeds the umbral one at every observer        *)
CatalogRecords ==
  { r \in MovingRecords :
      /\ r.tanF1 > 0 /\ r.tanF2 > 0
      /\ r.l1[2] = 0 /\ r.l1[1] >= 8
      /\ r.l2[1] \in -3..3 }

InitCatalog ==
  /\ e \in CatalogRecords
  /\ o \in Observers
  /\ pc = "call"
  /\ result = [outcome |-> "pending"]

SpecCatalog == InitCatalog /\ [][Next]_vars

----------------------------------------------------------------------------
(* Vocabulary of the properties *)

returned == pc = "done" /\ result.outcome = "returned"

present(x) == x # None

central == result.kindAtLocation \in {"total", "annular"}

penRoots == result.debug.solver.penRoots
umbRoots == result.debug.solver.umbRoots
contacts == result.debug.contacts

dateLess(a, b) == a.day < b.day \/ (a.day = b.day /\ a.ms < b.ms)

(* the instant of a present ISO string is earlier than that of another *)
before(a, b) == dateLess(parseUtc(a[1]), parseUtc(b[1]))

(* b - a in milliseconds, for two present ISO strings *)
msBetween(a, b) ==
  (parseUtc(b[1]).day - parseUtc(a[1]).day) * MsPerDay
    + parseUtc(b[1]).ms - parseUtc(a[1]).ms

(* dateYmd has the form YYYY-MM-DD *)
wellFormedYmd(dateYmd) ==
  /\ Len(dateYmd) = 3
  /\ \A i \in 1..3 : dateYmd[i] # None /\ isFinite(dateYmd[i][1])
  /\ dateYmd[1][1] \in 0..9999
  /\ dateYmd[2][1] \in 1..12
  /\ dateYmd[3][1] \in 1..31

validDate == t0TtDate(e).valid /\ ttToUtcUsingDeltaT(t0TtDate(e), e).valid

malformedPayload ==
  \E p \in MalformedPayloads :
    e.x = p /\ e.y = p /\ e.d = p /\ e.mu = p /\ e.l1 = p /\ e.l2 = p

----------------------------------------------------------------------------
(* C1, as claimed: a result with visible = false has kindAtLocation =      *)
(* "none", no c1Utc, c2Utc, c3Utc, c4Utc, no durationSeconds, no           *)
(* magnitude, and a maxUtc, whatever roots the solver found.               *)
C1_AsClaimed ==
  (returned /\ ~result.visible) =>
    /\ result.kindAtLocation = "none"
    /\ result.c1Utc = None /\ result.c2Utc = None
    /\ result.c3Utc = None /\ result.c4Utc = None
    /\ result.durationSeconds = None
    /\ result.magnitude = None
    /\ present(result.maxUtc)

(* C2, as claimed: for total and annular results the emitted instants obey *)
(* C1 < C2 < max < C3 < C4, all strict; for partial results C1 < max < C4  *)
(* and c2Utc, c3Utc are absent.                                            *)
C2_AsClaimed ==
  returned =>
    /\ central =>
         /\ present(result.c1Utc) /\ present(result.c2Utc) /\ present(result.maxUtc)
         /\ present(result.c3Utc) /\ present(result.c4Utc)
         /\ before(result.c1Utc, result.c2Utc)
         /\ before(result.c2Utc, result.maxUtc)
         /\ before(result.maxUtc, result.c3Utc)
         /\ before(result.c3Utc, result.c4Utc)
    /\ result.kindAtLocation = "partial" =>
         /\ present(result.c1Utc) /\ present(result.maxUtc) /\ present(result.c4Utc)
         /\ before(result.c1Utc, result.maxUtc)
         /\ before(result.maxUtc, result.c4Utc)
         /\ result.c2Utc = None /\ result.c3Utc = None

(* C3, as claimed: with a valid date and the six polynomial arrays all     *)
(* empty, all [NaN] or all [0], the call returns visible = false,          *)
(* kindAtLocation = "none", no c1Utc, no c4Utc, a maxUtc, and finds no     *)
(* penumbral and no umbral root.                                           *)
C3_AsClaimed ==
  (pc = "done" /\ validDate /\ malformedPayload) =>
    /\ result.outcome = "returned"
    /\ ~result.visible
    /\ result.kindAtLocation = "none"
    /\ result.c1Utc = None /\ result.c4Utc = None
    /\ present(result.maxUtc)
    /\ penRoots = <<>> /\ umbRoots = <<>>

(* C4: when the record's date gives an invalid instant, the call raises a  *)
(* RangeError and returns nothing, for every observer and payload.         *)
C4_InvalidDateThrows ==
  (pc = "done" /\ ~t0TtDate(e).valid) => result.outcome = "RangeError"

C4_Witness ==
  /\ pc = "done" /\ ~t0TtDate(e).valid /\ result.outcome = "RangeError"
  /\ isFinite(e.t0TtHours)
  /\ o.lonDeg = 90

(* C5, as claimed: for every dateYmd that is not of the form YYYY-MM-DD    *)
(* (a piece missing, or text that is not a number) t0TtDate returns the    *)
(* invalid date.                                                           *)
C5_AsClaimed ==
  (pc = "t0" /\ ~wellFormedYmd(e.dateYmd)) => ~result.date.valid

(* C6: with a valid date the call returns a result that has a maxUtc,      *)
(* whichever branch chose the maximum and even if no metric is finite.     *)
C6_MaxUtcPresent ==
  (pc = "done" /\ validDate) =>
    /\ result.outcome = "returned"
    /\ present(result.maxUtc)

C6_Witness ==
  /\ returned /\ present(result.maxUtc)
  /\ result.debug.solver.branch = "fallback"
  /\ ~isFinite(result.debug.maxEval.delta)
  /\ contacts.max = Some(0)

(* C7, as claimed: total or annular only with at least two umbral roots    *)
(* and C2 > C1, C3 < C4; a visible result without that is partial; and a   *)
(* central result is total exactly when L2obs < 0 at the max time.         *)
C7_Inside ==
  /\ Len(umbRoots) >= 2
  /\ present(contacts.c1) /\ present(contacts.c2)
  /\ present(contacts.c3) /\ present(contacts.c4)
  /\ contacts.c2[1] > contacts.c1[1]
  /\ contacts.c3[1] < contacts.c4[1]

C7_AsClaimed ==
  returned =>
    /\ central => C7_Inside
    /\ (result.visible /\ ~C7_Inside) => result.kindAtLocation = "partial"
    /\ central =>
         (result.kindAtLocation = "total" <=> Less(result.debug.maxEval.L2obs, 0))

(* C8: durationSeconds is present exactly when C2 and C3 are both present  *)
(* and C3 > C2; it is then positive and equals (C3 - C2) * 3600.           *)
C8_Duration ==
  returned =>
    /\ present(result.durationSeconds) <=>
         /\ present(result.c2Utc) /\ present(result.c3Utc)
         /\ contacts.c3[1] > contacts.c2[1]
    /\ present(result.durationSeconds) =>
         /\ result.durationSeconds[1] > 0
         /\ result.durationSeconds[1] = (contacts.c3[1] - contacts.c2[1]) * SubPerTick

C8_Witness ==
  /\ returned /\ present(result.durationSeconds)
  /\ contacts.c3[1] - contacts.c2[1] >= stepBracket

(* C9, as claimed: a present durationSeconds is within 1 ms of the         *)
(* difference between the emitted c3Utc and c2Utc, for every C2, C3, t0    *)
(* and deltaT.                                                             *)
C9_AsClaimed ==
  (returned /\ present(result.durationSeconds)) =>
    abs(result.durationSeconds[1]
          - msBetween(result.c2Utc, result.c3Utc) * SubPerMs) <= SubPerMs

(* The time values of a contact before new Date truncates them: the TT   *)
(* sum t0 + t * 3600000 and the UTC difference tt - deltaT * 1000.       *)
ttRaw(t) ==
  LET t0 == getTime(t0TtDate(e))
  IN normTime(t0.day, t0.sub + t * SubPerTick)

utcRaw(t) ==
  LET tt == getTime(ttAtTHours(e, t))
  IN normTime(tt.day, tt.sub - e.deltaTSeconds)

rawTimes == { ttRaw(contacts.c2[1]), utcRaw(contacts.c2[1]),
              ttRaw(contacts.c3[1]), utcRaw(contacts.c3[1]) }

atOrAfterEpoch == \A tv \in rawTimes : tv.day >= 0
atOrBeforeEpoch == \A tv \in rawTimes : tv.day < 0 \/ (tv.day = 0 /\ tv.sub = 0)

durationError ==
  abs(result.durationSeconds[1]
        - msBetween(result.c2Utc, result.c3Utc) * SubPerMs)

(* C9, amended: a present durationSeconds is within 1 ms of the           *)
(* difference between the emitted c3Utc and c2Utc when the TT and UTC     *)
(* time values of C2 and C3 all lie on one side of the epoch              *)
(* 1970-01-01T00:00:00.000Z, and within 3 ms when they straddle it.       *)
C9_Duration ==
  (returned /\ present(result.durationSeconds)) =>
    /\ durationError < 3 * SubPerMs
    /\ (atOrAfterEpoch \/ atOrBeforeEpoch) => durationError <= SubPerMs

C9_Witness ==
  /\ returned /\ present(result.durationSeconds)
  /\ atOrBeforeEpoch
  /\ durationError > 0
  /\ e.deltaTSeconds % SubPerMs # 0

(* Magnitudes are fractions num/den with den > 0; the ratio delta/L1obs   *)
(* of a result is taken at its max time.                                 *)
fracLess(a, b) == a.num * b.den < b.num * a.den

partialWithMagnitude(r) ==
  /\ r.outcome = "returned"
  /\ r.kindAtLocation = "partial"
  /\ present(r.magnitude)
  /\ isFinite(r.magnitude[1].num)

ratioOf(r) == [num |-> r.debug.maxEval.delta, den |-> r.debug.maxEval.L1obs]

magnitudeRules ==
  /\ (~result.visible \/ ~isFinite(result.debug.maxEval.L1obs)
        \/ result.debug.maxEval.L1obs <= 0) => result.magnitude = None
  /\ present(result.magnitude) =>
       /\ 0 <= result.magnitude[1].num
       /\ result.magnitude[1].num <= result.magnitude[1].den
  /\ (central /\ present(result.magnitude)) =>
       result.magnitude[1].num = result.magnitude[1].den
  /\ partialWithMagnitude(result) =>
       /\ result.magnitude[1].den = result.debug.maxEval.L1obs
       /\ result.magnitude[1].num =
            max2(0, min2(result.debug.maxEval.L1obs,
                         result.debug.maxEval.L1obs - result.debug.maxEval.delta))

----------------------------------------------------------------------------
(* The math utilities called on their own: a caller holds the arguments    *)
(* of one call in e (no observer, o is None) and makes the call.  Times    *)
(* are ticks; a function f is given by its values on the ticks it may be   *)
(* asked at.                                                               *)

BracketSteps == 2
MathDepth == 2
MaxCoeffs == 3

(* findBrackets(f, 0, 2 * steps, 2): every f with values NaN, -1, 0, 1 on *)
(* the sample points and on the half steps between them                    *)
BracketCalls(steps) ==
  { [fn |-> "findBrackets", f |-> f, tStart |-> 0, tEnd |-> 2 * steps, step |-> 2] :
      f \in [(-1)..(2 * steps) -> {NaN, -1, 0, 1}] }

(* findBrackets(f, 0, 2 * steps + 1, 2), a window that is not a whole     *)
(* number of steps: every f with values -1, 0, 1 up to the first sample   *)
(* point past the end of the window                                       *)
UnevenBracketCalls(steps) ==
  { [fn |-> "findBrackets", f |-> f, tStart |-> 0, tEnd |-> 2 * steps + 1, step |-> 2] :
      f \in [(-1)..(2 * steps + 2) -> {-1, 0, 1}] }

(* tolerances and iteration limits under which every midpoint of an        *)
(* interval of width 2^depth falls on a tick                               *)
limitsOf(depth) ==
  { <<tl, mi>> \in ({0, 1} \cup { 2^k : k \in 1..depth }) \X ((0..depth) \cup {maxIterDefault}) :
      tl >= 2 \/ mi < depth }

(* bisectRoot(f, 0, 2^depth, tolerance, maxIter): every f with values NaN, *)
(* Infinity, -1, 0, 1 on the ticks of the interval                         *)
SampledBisectCalls(depth) ==
  LET width == 2^depth
      limits == limitsOf(depth)
  IN { [fn |-> "bisectRoot", f |-> f, a |-> 0, b |-> width,
        tolerance |-> lim[1], maxIter |-> lim[2], linear |-> None] :
         f \in [0..width -> {NaN, Infinity, -1, 0, 1}], lim \in limits }

(* bisectRoot on the linear f(t) = slope * (t - root) over [0, 2^depth] *)
LinearBisectCalls(depth) ==
  LET width == 2^depth
      limits == limitsOf(depth)
  IN { [fn |-> "bisectRoot", f |-> [t \in 0..width |-> slope * (t - root)],
        a |-> 0, b |-> width,
        tolerance |-> lim[1], maxIter |-> lim[2],
        linear |-> Some([slope |-> slope, root |-> root])] :
         slope \in {-2, -1, 1, 2}, root \in (-1)..(width + 1), lim \in limits }

RECURSIVE seqsUpTo(_, _)
seqsUpTo(S, n) ==
  IF n = 0 THEN {<<>>}
  ELSE LET shorter == seqsUpTo(S, n - 1)
       IN shorter \cup { Append(q, x) : q \in shorter, x \in S }

(* evalPoly(coeffs, t) on up to maxCoeffs coefficients *)
PolyCalls(maxCoeffs) ==
  LET coeffSeqs == seqsUpTo({NaN, -3, 0, 1, 2}, maxCoeffs)
  IN { [fn |-> "evalPoly", coeffs |-> c, t |-> t] :
         c \in coeffSeqs, t \in {-2, -1, 0, 1, 3} }

(* a call of one of the three: the sampled f on an interval of 4 ticks,    *)
(* the linear one on a wider one                                          *)
InitMath ==
  /\ \/ e \in BracketCalls(BracketSteps)
     \/ e \in UnevenBracketCalls(BracketSteps)
     \/ e \in SampledBisectCalls(2)
     \/ e \in LinearBisectCalls(MathDepth + 2)
     \/ e \in PolyCalls(MaxCoeffs)
  /\ o = None
  /\ pc = "call"
  /\ result = [outcome |-> "pending"]

FindBrackets ==
  /\ pc = "call"
  /\ e.fn = "findBrackets"
  /\ result' = [outcome |-> "findBrackets",
                brackets |-> findBrackets(e.f, e.tStart, e.tEnd, e.step)]
  /\ pc' = "done"
  /\ UNCHANGED <<e, o>>

BisectRoot ==
  /\ pc = "call"
  /\ e.fn = "bisectRoot"
  /\ result' = [outcome |-> "bisectRoot",
                run |-> bisectRun(e.f, e.a, e.b, e.tolerance, e.maxIter)]
  /\ pc' = "done"
  /\ UNCHANGED <<e, o>>

EvalPoly ==
  /\ pc = "call"
  /\ e.fn = "evalPoly"
  /\ result' = [outcome |-> "evalPoly", value |-> evalPoly(e.coeffs, e.t)]
  /\ pc' = "done"
  /\ UNCHANGED <<e, o>>

NextMath == FindBrackets \/ BisectRoot \/ EvalPoly

SpecMath == InitMath /\ [][NextMath]_vars

----------------------------------------------------------------------------
(* C11: every bracket findBrackets returns has finite endpoint values     *)
(* fa = f(a) and fb = f(b) whose product is at most zero.                 *)

bracketed == pc = "done" /\ result.outcome = "findBrackets"

straddles(br) ==
  /\ isFinite(br.fa)
  /\ isFinite(br.fb)
  /\ br.fa = e.f[br.a]
  /\ br.fb = e.f[br.b]
  /\ br.fa * br.fb <= 0

C11_AsClaimed ==
  bracketed =>
    \A i \in 1..Len(result.brackets) : straddles(result.brackets[i])

----------------------------------------------------------------------------
(* C12: when f(a) or f(b) is exactly zero, bisectRoot returns that        *)
(* endpoint (a first) with ok = true and iterations = 0 and evaluates no  *)
(* midpoint, whatever f is at the other endpoint.                         *)

bisected == pc = "done" /\ result.outcome = "bisectRoot"

fA == e.f[e.a]
fB == e.f[e.b]

endpointRoot ==
  /\ result.run.ret =
       Some([tHours |-> IF fA = 0 THEN e.a ELSE e.b, ok |-> TRUE, iterations |-> 0])
  /\ result.run.mids = <<>>

C12_AsClaimed ==
  (bisected /\ (fA = 0 \/ fB = 0)) => endpointRoot

(* C12, amended: ... provided f is finite at the other endpoint; when it   *)
(* is not, the result is null, again without a midpoint evaluation.        *)
C12_EndpointRoot ==
  (bisected /\ (fA = 0 \/ fB = 0)) =>
    IF isFinite(fA) /\ isFinite(fB)
    THEN endpointRoot
    ELSE result.run.ret = None /\ result.run.mids = <<>>

(* both endpoints are roots and a is the one returned *)
C12_Witness ==
  /\ bisected
  /\ fA = 0
  /\ fB = 0
  /\ endpointRoot
  /\ result.run.ret[1].tHours = e.a

----------------------------------------------------------------------------
(* C13: bisectRoot returns null exactly when f(a) or f(b) is non-finite,  *)
(* or f(a) and f(b) are non-zero with the same sign, or an evaluated      *)
(* midpoint is non-finite; otherwise its tHours lies within [a, b].       *)

nonFiniteEndpoint == ~isFinite(fA) \/ ~isFinite(fB)

sameSignEndpoints ==
  /\ isFinite(fA) /\ isFinite(fB)
  /\ fA # 0 /\ fB # 0
  /\ (fA > 0) = (fB > 0)

nonFiniteMidpoint ==
  \E i \in 1..Len(result.run.mids) : ~isFinite(e.f[result.run.mids[i]])

C13_NullExactly ==
  bisected =>
    /\ (result.run.ret = None) <=>
         (nonFiniteEndpoint \/ sameSignEndpoints \/ nonFiniteMidpoint)
    /\ result.run.ret # None =>
         (e.a <= result.run.ret[1].tHours /\ result.run.ret[1].tHours <= e.b)

(* a null that comes from the second midpoint *)
C13_Witness ==
  /\ bisected
  /\ result.run.ret = None
  /\ Len(result.run.mids) = 2
  /\ ~nonFiniteEndpoint
  /\ ~sameSignEndpoints

----------------------------------------------------------------------------
(* C14: bisectRoot evaluates at most maxIter midpoints; when none of the  *)
(* maxIter iterations finds the width at tol or below or a midpoint that  *)
(* is zero or non-finite, it returns ok = false, iterations = maxIter and *)
(* the midpoint of the final interval, which still straddles a sign       *)
(* change.                                                                *)

entersLoop == ~nonFiniteEndpoint /\ fA # 0 /\ fB # 0 /\ ~sameSignEndpoints

(* the width of the interval whose midpoint is the i-th one evaluated: the *)
(* interval is halved at every iteration                                   *)
widthAt(i) == (e.b - e.a) \div 2^(i - 1)

exhausted ==
  /\ entersLoop
  /\ Len(result.run.mids) = e.maxIter
  /\ \A i \in 1..e.maxIter :
       /\ widthAt(i) > e.tolerance
       /\ isFinite(e.f[result.run.mids[i]])
       /\ e.f[result.run.mids[i]] # 0

finalStraddles ==
  LET flo == e.f[result.run.lo]
      fhi == e.f[result.run.hi]
  IN /\ isFinite(flo) /\ isFinite(fhi)
     /\ flo * fhi < 0

C14_Exhausted ==
  bisected =>
    /\ Len(result.run.mids) <= e.maxIter
    /\ exhausted =>
         /\ result.run.ret =
              Some([tHours |-> half(result.run.lo + result.run.hi),
                    ok |-> FALSE, iterations |-> e.maxIter])
         /\ result.run.hi - result.run.lo = widthAt(e.maxIter + 1)
         /\ finalStraddles

(* three iterations used up on a linear f *)
C14_Witness ==
  /\ bisected
  /\ exhausted
  /\ e.maxIter = 3
  /\ e.linear # None
  /\ result.run.ret # None
  /\ ~result.run.ret[1].ok

----------------------------------------------------------------------------
(* C15: on a strictly monotone linear f whose root r lies in [a, b], a    *)
(* result with ok = true has |tHours - r| <= 1.1 * tol.                   *)

linearWithRoot ==
  /\ bisected
  /\ e.linear # None
  /\ e.a <= e.linear[1].root
  /\ e.linear[1].root <= e.b

converged == result.run.ret # None /\ result.run.ret[1].ok

C15_WithinTolerance ==
  (linearWithRoot /\ converged) =>
    10 * abs(result.run.ret[1].tHours - e.linear[1].root) <= 11 * e.tolerance

(* the width test, not an exact hit, ended the run next to the root *)
C15_Witness ==
  /\ linearWithRoot
  /\ converged
  /\ e.tolerance > 0
  /\ result.run.ret[1].iterations >= 2
  /\ result.run.ret[1].tHours # e.linear[1].root

----------------------------------------------------------------------------
(* C16: evalPoly(coeffs, t) is the sum of coeffs[i] * t^i over the        *)
(* coefficients, lowest order first, and 0 for no coefficients.           *)

RECURSIVE pow(_, _)
pow(t, n) == IF n = 0 THEN 1 ELSE Times(t, pow(t, n - 1))

(* the test's evalPolyNaive: reduce((sum, c, i) => sum + c * t ** i, 0) *)
RECURSIVE evalPolyNaive(_, _, _)
evalPolyNaive(coeffs, t, n) ==
  IF n = 0 THEN 0
  ELSE Plus(evalPolyNaive(coeffs, t, n - 1), Times(coeffs[n], pow(t, n - 1)))

polyEvaluated == pc = "done" /\ result.outcome = "evalPoly"

C16_PowerSum ==
  polyEvaluated =>
    /\ result.value = evalPolyNaive(e.coeffs, e.t, Len(e.coeffs))
    /\ e.coeffs = <<>> => result.value = 0

(* a quadratic whose three terms all count *)
C16_Witness ==
  /\ polyEvaluated
  /\ Len(e.coeffs) = 3
  /\ \A i \in 1..3 : isFinite(e.coeffs[i]) /\ e.coeffs[i] # 0
  /\ e.t = 3
  /\ result.value = e.coeffs[1] + 3 * e.coeffs[2] + 9 * e.coeffs[3]

----------------------------------------------------------------------------
(* C17, as claimed: for a dateYmd of the form YYYY-MM-DD and a finite      *)
(* t0TtHours >= 0, t0TtDate is the UTC midnight of dateYmd plus t0TtHours  *)
(* in milliseconds, rounded to the nearest millisecond (half away from     *)
(* zero), with the overflow carried into the date.                         *)

t0Called == pc = "t0" /\ result.outcome = "t0TtDate"

(* t, in 1/SubPerMs ms and not negative, to the nearest millisecond *)
nearestMs(t) == (2 * t + SubPerMs) \div (2 * SubPerMs)

midnightPlus(dateYmd, ms) ==
  [valid |-> TRUE,
   day |-> daysFromCivil(dateYmd[1][1], dateYmd[2][1], dateYmd[3][1]) + (ms \div MsPerDay),
   ms |-> ms % MsPerDay]

C17_AsClaimed ==
  (/\ t0Called
   /\ wellFormedYmd(e.dateYmd)
   /\ isFinite(e.t0TtHours)
   /\ e.t0TtHours >= 0) =>
    result.date = midnightPlus(e.dateYmd, nearestMs(e.t0TtHours))

(* the same outside the years 0 to 99 *)
C17_From100 ==
  (/\ t0Called
   /\ wellFormedYmd(e.dateYmd)
   /\ e.dateYmd[1][1] >= 100
   /\ isFinite(e.t0TtHours)
   /\ e.t0TtHours >= 0) =>
    result.date = midnightPlus(e.dateYmd, nearestMs(e.t0TtHours))

----------------------------------------------------------------------------
(* catalog/scripts/build_overlays_json.ts: the points of the overlay       *)
(* polygons.  Angles are in tenths of a degree.  The spherical formulas of *)
(* destPoint are exact along a meridian (bearing 0 or 180) and along the   *)
(* equator (bearing 90 or 270 from latitude 0), the only calls made here.  *)
(* The metric is given by its values along the ray: metric[d] is metricFn  *)
(* at destPoint(center, bearing, d).  A midpoint falls on the grid of      *)
(* tenths.                                                                 *)

BISECT_ITERS == 22
PEN_SEARCH_DEG == 800
UMB_SEARCH_DEG == 100

(* the remainder operator of the language: the sign of the dividend *)
rem(a, n) == IF a >= 0 THEN a % n ELSE -((-a) % n)

wrapLon(lon2) == rem(lon2 + 5400, 3600) - 1800

destPoint(latDeg, lonDeg, bearingDeg, distDeg) ==
  CASE bearingDeg = 0 ->
         IF latDeg + distDeg <= 900
         THEN <<latDeg + distDeg, wrapLon(lonDeg)>>
         ELSE <<1800 - (latDeg + distDeg), wrapLon(lonDeg + 1800)>>
    [] bearingDeg = 1800 ->
         IF latDeg - distDeg >= -900
         THEN <<latDeg - distDeg, wrapLon(lonDeg)>>
         ELSE <<-1800 - (latDeg - distDeg), wrapLon(lonDeg + 1800)>>
    [] bearingDeg = 900 /\ latDeg = 0 -> <<0, wrapLon(lonDeg + distDeg)>>
    [] bearingDeg = 2700 /\ latDeg = 0 -> <<0, wrapLon(lonDeg - distDeg)>>

normLon(lon) == rem(rem(lon, 3600) + 5400, 3600) - 1800

clamp(v, lo, hi) == max2(lo, min2(hi, v))

RECURSIVE edgeLoop(_, _, _, _, _)
edgeLoop(metric, lo, hi, loVal, i) ==
  LET mid == (lo + hi) \div 2
      mVal == metric[mid]
  IN IF i >= BISECT_ITERS THEN mid
     ELSE IF (loVal < 0) = (mVal < 0)
     THEN edgeLoop(metric, mid, hi, mVal, i + 1)
     ELSE edgeLoop(metric, lo, mid, loVal, i + 1)

edgePoint(p) == Some(<<clamp(p[1], -899, 899), normLon(p[2])>>)

findEdgeAlongBearing(centerLat, centerLon, bearingDeg, maxRadiusDeg, metric) ==
  LET loVal0 == metric[0]
      hiVal0 == metric[maxRadiusDeg]
      far == destPoint(centerLat, centerLon, bearingDeg, maxRadiusDeg)
  IN IF loVal0 >= 0 /\ hiVal0 >= 0 THEN None
     ELSE IF loVal0 < 0 /\ hiVal0 < 0 THEN edgePoint(far)
     ELSE edgePoint(destPoint(centerLat, centerLon, bearingDeg,
                              edgeLoop(metric, 0, maxRadiusDeg, loVal0, 0)))

(* shadow-axis centres (latitude within 89 degrees, longitude as normLon  *)
(* leaves it), the bearings of the exact cases, both search radii, and    *)
(* metrics that change sign once along the ray or not at all              *)
EdgeCalls ==
  { [fn |-> "findEdgeAlongBearing", centerLat |-> lat, centerLon |-> lon,
     bearingDeg |-> b, maxRadiusDeg |-> r,
     metric |-> [d \in 0..r |-> sign * (d - edge)]] :
      lat \in {-890, 0, 800, 890},
      lon \in {-1800, -1000, 0, 1000, 1795},
      b \in {0, 900, 1800, 2700},
      r \in {PEN_SEARCH_DEG, UMB_SEARCH_DEG},
      sign \in {-1, 1},
      edge \in {-50, 5, 55, 1000} }

(* The penumbra envelope.  The model has four bearing buckets, so that    *)
(* the bearings that fall on the bucket boundaries are those of the exact *)
(* cases; the outline traced at each frame is given with the frame.       *)

BEARING_SAMPLES_VISIBLE == 4

(* the mean latitude, and the circular mean of the longitudes: it is the  *)
(* arithmetic mean for longitudes that lie symmetrically about it         *)
outlineCenter(pts) ==
  LET n == Len(pts)
      RECURSIVE sum(_, _)
      sum(c, i) == IF i > n THEN 0 ELSE pts[i][c] + sum(c, i + 1)
      sLat == sum(1, 1)
      sLon == sum(2, 1)
      mean == CASE sLon % n = 0 -> sLon \div n
  IN CASE /\ sLat % n = 0
          /\ { pts[i][2] - mean : i \in 1..n } = { mean - pts[i][2] : i \in 1..n }
          -> <<sLat \div n, mean>>

(* exact along a meridian and along the equator; atan2(0, 0) is 0 *)
bearingFromTo(lat1, lon1, lat2, lon2) ==
  CASE lon2 = lon1 /\ lat2 >= lat1 -> 0
    [] lat1 = 0 /\ lat2 = 0 /\ lon2 > lon1 /\ lon2 - lon1 < 1800 -> 900
    [] lon2 = lon1 /\ lat2 < lat1 -> 1800
    [] lat1 = 0 /\ lat2 = 0 /\ lon2 < lon1 /\ lon1 - lon2 < 1800 -> 2700

angularDistance(lat1, lon1, lat2, lon2) ==
  CASE lon2 = lon1 -> abs(lat2 - lat1)
    [] lat1 = 0 /\ lat2 = 0 /\ abs(lon2 - lon1) <= 1800 -> abs(lon2 - lon1)

(* The interpolated point is kept as the term of its arguments, the       *)
(* fraction num/den in lowest terms: a chord point projected back onto    *)
(* the sphere has no exact value on the grid.  Between a point and itself *)
(* it is that point, and at the fraction 1 the second point.              *)
sphericalInterp(p1, p2, num, den) ==
  LET g == CHOOSE k \in 1..den :
             /\ num % k = 0 /\ den % k = 0
             /\ \A m \in (k + 1)..den : num % m # 0 \/ den % m # 0
  IN IF p1 = p2 THEN p1
     ELSE IF num = den THEN p2
     ELSE <<p1, p2, num \div g, den \div g>>

(* the loops over the frames and their outlines: each bucket keeps the    *)
(* point farthest from the centroid.  The bucket of index i is the        *)
(* (i + 1)-th of the sequence.                                            *)
RECURSIVE traceBuckets(_, _, _, _, _)
traceBuckets(buckets, centroid, outlines, f, k) ==
  IF f > Len(outlines) THEN buckets
  ELSE IF k > Len(outlines[f].outline)
  THEN traceBuckets(buckets, centroid, outlines, f + 1, 1)
  ELSE LET pt == outlines[f].outline[k]
           numBuckets == BEARING_SAMPLES_VISIBLE
           bearing == bearingFromTo(centroid[1], centroid[2], pt[1], pt[2])
           bucketIdx == ((bearing * numBuckets) \div 3600) % numBuckets
           dist == angularDistance(centroid[1], centroid[2], pt[1], pt[2])
       IN traceBuckets(
            IF buckets[bucketIdx + 1] = None \/ dist > buckets[bucketIdx + 1][1].dist
            THEN [buckets EXCEPT ![bucketIdx + 1] = Some([pt |-> pt, dist |-> dist])]
            ELSE buckets,
            centroid, outlines, f, k + 1)

(* a fill that wants two different neighbours *)
RECURSIVE fillBucketsBetweenTwo(_, _)
fillBucketsBetweenTwo(buckets, i) ==
  LET numBuckets == BEARING_SAMPLES_VISIBLE
      dBefore == { d \in 1..(numBuckets - 1) : buckets[((i - d + numBuckets) % numBuckets) + 1] # None }
      dAfter == { d \in 1..(numBuckets - 1) : buckets[((i + d) % numBuckets) + 1] # None }
      prevIdx == (i - (CHOOSE d \in dBefore : \A d2 \in dBefore : d <= d2) + numBuckets) % numBuckets
      nextIdx == (i + (CHOOSE d \in dAfter : \A d2 \in dAfter : d <= d2)) % numBuckets
      gapSize == (nextIdx - prevIdx + numBuckets) % numBuckets
      pos == (i - prevIdx + numBuckets) % numBuckets
  IN IF i >= numBuckets THEN buckets
     ELSE IF buckets[i + 1] # None \/ dBefore = {} \/ dAfter = {} \/ prevIdx = nextIdx
     THEN fillBucketsBetweenTwo(buckets, i + 1)
     ELSE fillBucketsBetweenTwo(
            [buckets EXCEPT ![i + 1] =
               Some([pt |-> sphericalInterp(buckets[prevIdx + 1][1].pt, buckets[nextIdx + 1][1].pt,
                                            pos, gapSize),
                     dist |-> 0])],
            i + 1)

(* the fill loop, from bucket i on.  The distance of a filled bucket is   *)
(* not read again and is kept as 0.                                       *)
RECURSIVE fillBuckets(_, _)
fillBuckets(buckets, i) ==
  LET numBuckets == BEARING_SAMPLES_VISIBLE
      dBefore == { d \in 1..(numBuckets - 1) : buckets[((i - d + numBuckets) % numBuckets) + 1] # None }
      dAfter == { d \in 1..(numBuckets - 1) : buckets[((i + d) % numBuckets) + 1] # None }
      prevIdx == (i - (CHOOSE d \in dBefore : \A d2 \in dBefore : d <= d2) + numBuckets) % numBuckets
      nextIdx == (i + (CHOOSE d \in dAfter : \A d2 \in dAfter : d <= d2)) % numBuckets
      gap == (nextIdx - prevIdx + numBuckets) % numBuckets
      gapSize == IF gap = 0 THEN numBuckets ELSE gap
      pos == (i - prevIdx + numBuckets) % numBuckets
  IN IF i >= numBuckets THEN buckets
     ELSE IF buckets[i + 1] # None \/ dBefore = {} \/ dAfter = {}
     THEN fillBuckets(buckets, i + 1)
     ELSE fillBuckets(
            [buckets EXCEPT ![i + 1] =
               Some([pt |-> sphericalInterp(buckets[prevIdx + 1][1].pt, buckets[nextIdx + 1][1].pt,
                                            pos, gapSize),
                     dist |-> 0])],
            i + 1)

(* the polygons returned, with the buckets as tracing and as the fill     *)
(* left them                                                              *)
buildVisiblePolygon(outlines) ==
  LET numBuckets == BEARING_SAMPLES_VISIBLE
      centroid == outlineCenter([f \in 1..Len(outlines) |-> outlines[f].center])
      noBuckets == SubSeq([i \in 1..numBuckets |-> None], 1, numBuckets)
      traced == traceBuckets(noBuckets, centroid, outlines, 1, 1)
      buckets == fillBuckets(traced, 0)
      filled == SelectSeq(buckets, LAMBDA b : b # None)
      envelope == [j \in 1..Len(filled) |-> filled[j][1].pt]
  IN IF Len(outlines) = 0
     THEN [polygons |-> <<>>, traced |-> <<>>, buckets |-> <<>>]
     ELSE [polygons |-> IF Len(envelope) < 3 THEN <<>> ELSE <<envelope>>,
           traced |-> traced,
           buckets |-> buckets]

(* up to two frames about the origin, the outline of each holding up to   *)
(* two points, 10 or 20 degrees due north, east, south or west            *)
VisibleCalls ==
  LET points == { edgePoint(destPoint(0, 0, b, d))[1] :
                    b \in {0, 900, 1800, 2700}, d \in {100, 200} }
      frames == { [center |-> <<0, 0>>, outline |-> pts] : pts \in seqsUpTo(points, 2) }
  IN { [fn |-> "buildVisiblePolygon", outlines |-> fs] : fs \in seqsUpTo(frames, 2) }

(* The central band.  tolerance is in hundredths of a degree, and a        *)
(* distance d in tenths exceeds it when 100 d^2 exceeds its square.       *)

SIMPLIFY_CEN_DEG == 8

MaxFrames == 2

(* the square of the distance from p to the segment a-b, times the        *)
(* squared length of the segment where that is not zero: the distances    *)
(* douglasPeucker compares all share the segment                          *)
perpDist(p, a, b) ==
  LET dx == b[2] - a[2]
      dy == b[1] - a[1]
      lenSq == dx * dx + dy * dy
      dot == (p[2] - a[2]) * dx + (p[1] - a[1]) * dy
      cross == (p[2] - a[2]) * dy - (p[1] - a[1]) * dx
  IN IF lenSq = 0
     THEN (p[1] - a[1]) * (p[1] - a[1]) + (p[2] - a[2]) * (p[2] - a[2])
     ELSE IF dot <= 0
     THEN ((p[1] - a[1]) * (p[1] - a[1]) + (p[2] - a[2]) * (p[2] - a[2])) * lenSq
     ELSE IF dot >= lenSq
     THEN ((p[1] - b[1]) * (p[1] - b[1]) + (p[2] - b[2]) * (p[2] - b[2])) * lenSq
     ELSE cross * cross

RECURSIVE douglasPeucker(_, _)
douglasPeucker(points, tolerance) ==
  LET n == Len(points)
      first == points[1]
      last == points[n]
      lenSq == (last[2] - first[2]) * (last[2] - first[2])
                 + (last[1] - first[1]) * (last[1] - first[1])
      d(i) == perpDist(points[i], first, last)
      inner == 2..(n - 1)
      maxDist == IF inner = {} THEN 0
                 ELSE max2(0, CHOOSE m \in { d(i) : i \in inner } :
                                \A i \in inner : d(i) <= m)
      maxIdx == IF maxDist = 0 THEN 1
                ELSE CHOOSE i \in inner :
                       d(i) = maxDist /\ \A j \in inner : j < i => d(j) < maxDist
      left == douglasPeucker(SubSeq(points, 1, maxIdx), tolerance)
      right == douglasPeucker(SubSeq(points, maxIdx, n), tolerance)
  IN IF n <= 2 THEN points
     ELSE IF maxDist > (tolerance * tolerance * (IF lenSq = 0 THEN 1 ELSE lenSq)) \div 100
     THEN SubSeq(left, 1, Len(left) - 1) \o right
     ELSE <<first, last>>

simplifyPath(pts, tolerance) ==
  IF Len(pts) <= 2 THEN pts ELSE douglasPeucker(pts, tolerance)

(* the projection of p, seen from center, on the perpendicular <<perpDx,  *)
(* perpDy>> of the sweep                                                  *)
perpScore(p, center, perp) ==
  LET d == p[2] - center[2]
      dl == IF d > 1800 THEN d - 3600 ELSE IF d < -1800 THEN d + 3600 ELSE d
  IN dl * perp[1] + (p[1] - center[1]) * perp[2]

(* the points left in the order they had *)
sortByPerpProjectionUnsorted(pts, center, perp) == pts

(* Array.prototype.sort is stable: ascending score, equal scores in the   *)
(* order they had                                                         *)
RECURSIVE sortByPerpProjection(_, _, _)
sortByPerpProjection(pts, center, perp) ==
  IF pts = <<>> THEN <<>>
  ELSE LET n == Len(pts)
           rest == sortByPerpProjection(SubSeq(pts, 1, n - 1), center, perp)
           k == Cardinality({ i \in 1..(n - 1) :
                               perpScore(rest[i], center, perp)
                                 <= perpScore(pts[n], center, perp) })
       IN SubSeq(rest, 1, k) \o <<pts[n]>> \o SubSeq(rest, k + 1, n - 1)

(* the polygons returned, with the frames kept, the perpendicular (the    *)
(* sweep turned by +90 degrees, not normalised: sin and cos of the angle  *)
(* are these over the sweep's length; <<1, 0>> for no sweep) and the band *)
(* as assembled before it is simplified                                   *)
buildBandPolygon(outlines, tolerance) ==
  LET RECURSIVE byTime(_)
      byTime(fs) ==
        IF fs = <<>> THEN <<>>
        ELSE LET n == Len(fs)
                 rest == byTime(SubSeq(fs, 1, n - 1))
                 k == Cardinality({ i \in 1..(n - 1) : rest[i].t <= fs[n].t })
             IN SubSeq(rest, 1, k) \o <<fs[n]>> \o SubSeq(rest, k + 1, n - 1)
      valid == byTime(SelectSeq(outlines, LAMBDA f : Len(f.points) >= 3))
      firstCenter == outlineCenter(valid[1].points)
      lastCenter == outlineCenter(valid[Len(valid)].points)
      sweepDx == lastCenter[2] - firstCenter[2]
      sweepDy == lastCenter[1] - firstCenter[1]
      adjustedSweepDx == IF abs(sweepDx) > 1800
                         THEN IF sweepDx > 0 THEN sweepDx - 3600 ELSE sweepDx + 3600
                         ELSE sweepDx
      perp == IF adjustedSweepDx = 0 /\ sweepDy = 0 THEN <<1, 0>>
              ELSE <<sweepDy, -adjustedSweepDx>>
      score(f, i) == perpScore(valid[f].points[i], outlineCenter(valid[f].points), perp)
      bestLeftPt(f) ==
        valid[f].points[CHOOSE i \in 1..Len(valid[f].points) :
                          \A j \in 1..Len(valid[f].points) :
                            /\ score(f, j) <= score(f, i)
                            /\ j < i => score(f, j) < score(f, i)]
      bestRightPt(f) ==
        valid[f].points[CHOOSE i \in 1..Len(valid[f].points) :
                          \A j \in 1..Len(valid[f].points) :
                            /\ score(f, j) >= score(f, i)
                            /\ j < i => score(f, j) > score(f, i)]
      leftEdge == [f \in 1..Len(valid) |-> bestLeftPt(f)]
      rightEdge == [f \in 1..Len(valid) |-> bestRightPt(f)]
      leadingCap == sortByPerpProjection(valid[1].points, firstCenter, perp)
      sortedLast == sortByPerpProjection(valid[Len(valid)].points, lastCenter, perp)
      trailingCap == [i \in 1..Len(sortedLast) |-> sortedLast[Len(sortedLast) + 1 - i]]
      band == leftEdge \o trailingCap
                \o [f \in 1..Len(valid) |-> rightEdge[Len(valid) + 1 - f]]
                \o leadingCap
      simplified == simplifyPath(band, tolerance)
      ring == simplifyPath(valid[1].points, tolerance)
  IN IF Len(valid) = 0
     THEN [polygons |-> <<>>, valid |-> valid, perp |-> None, band |-> <<>>]
     ELSE IF Len(valid) = 1
     THEN [polygons |-> IF Len(ring) >= 3 THEN <<ring>> ELSE <<>>,
           valid |-> valid, perp |-> None, band |-> <<>>]
     ELSE [polygons |-> IF Len(simplified) >= 3 THEN <<simplified>> ELSE <<>>,
           valid |-> valid, perp |-> Some(perp), band |-> band]

(* what buildOverlaysForEclipse passes: frames of at least three points   *)
(* in the order of their times, here about four centres; an outline is a  *)
(* triangle about its centre, in two orders of its points                 *)
BandCalls(maxFrames) ==
  LET outlineAt(c, k) ==
        CASE k = 1 -> << <<c[1] + 20, c[2]>>, <<c[1] - 10, c[2] - 10>>, <<c[1] - 10, c[2] + 10>> >>
          [] k = 2 -> << <<c[1] - 10, c[2] + 10>>, <<c[1] - 10, c[2] - 10>>, <<c[1] + 20, c[2]>> >>
      frames == { [t |-> t, points |-> outlineAt(c, k)] :
                    t \in 0..(maxFrames - 1),
                    c \in { <<0, 0>>, <<50, 0>>, <<0, 50>>, <<-50, -50>> },
                    k \in 1..2 }
  IN { [fn |-> "buildBandPolygon", outlines |-> fs, tolerance |-> eps] :
         fs \in { s \in seqsUpTo(frames, maxFrames) :
                    \A i \in 1..(Len(s) - 1) : s[i].t < s[i + 1].t },
         eps \in {SIMPLIFY_CEN_DEG, 100} }

InitOverlay ==
  /\ \/ e \in { c \in EdgeCalls : c.bearingDeg \in {900, 2700} => c.centerLat = 0 }
     \/ e \in VisibleCalls
     \/ e \in BandCalls(MaxFrames)
  /\ o = None
  /\ pc = "call"
  /\ result = [outcome |-> "pending"]

FindEdgeAlongBearing ==
  /\ pc = "call"
  /\ e.fn = "findEdgeAlongBearing"
  /\ result' = [outcome |-> "findEdgeAlongBearing",
                point |-> findEdgeAlongBearing(e.centerLat, e.centerLon, e.bearingDeg,
                                               e.maxRadiusDeg, e.metric)]
  /\ pc' = "done"
  /\ UNCHANGED <<e, o>>

BuildVisiblePolygon ==
  /\ pc = "call"
  /\ e.fn = "buildVisiblePolygon"
  /\ result' = [outcome |-> "buildVisiblePolygon",
                built |-> buildVisiblePolygon(e.outlines)]
  /\ pc' = "done"
  /\ UNCHANGED <<e, o>>

BuildBandPolygon ==
  /\ pc = "call"
  /\ e.fn = "buildBandPolygon"
  /\ result' = [outcome |-> "buildBandPolygon",
                built |-> buildBandPolygon(e.outlines, e.tolerance)]
  /\ pc' = "done"
  /\ UNCHANGED <<e, o>>

NextOverlay == FindEdgeAlongBearing \/ BuildVisiblePolygon \/ BuildBandPolygon

SpecOverlay == InitOverlay /\ [][NextOverlay]_vars

----------------------------------------------------------------------------
(* C18, as claimed: every point of an overlay polygon has its latitude in *)
(* [-89.9, 89.9] and its longitude in (-180, 180]: -180 is never emitted. *)

emitted == pc = "done" /\ result.outcome = "findEdgeAlongBearing" /\ result.point # None

C18_AsClaimed ==
  emitted =>
    /\ -899 <= result.point[1][1] /\ result.point[1][1] <= 899
    /\ -1800 < result.point[1][2] /\ result.point[1][2] <= 1800

(* what the code keeps: the longitude is in [-180, 180) *)
C18_HalfOpenBelow ==
  emitted =>
    /\ -899 <= result.point[1][1] /\ result.point[1][1] <= 899
    /\ -1800 <= result.point[1][2] /\ result.point[1][2] < 1800

----------------------------------------------------------------------------
(* catalog/scripts/build_catalog_json.ts.  A CSV row is a record of cells  *)
(* by column name.  A cell is <<>> for the empty string and <<n>> for text *)
(* that Number() turns into n (NaN for text that is not a number); the     *)
(* cell of a column the file does not have is undefined.                   *)

undefined == <<NaN, NaN>>

toNum(v) ==
  LET n == Number(v)
  IN IF isFinite(n) THEN n ELSE NaN

CoreColumns ==
  { "t0", "dt", "tan_f1", "tan_f2",
    "x0", "x1", "x2", "x3", "y0", "y1", "y2", "y3",
    "d0", "d1", "d2", "mu0", "mu1", "mu2",
    "l10", "l11", "l12", "l20", "l21", "l22" }

catalogRecord(r) ==
  [id |-> <<toNum(r.year), toNum(r.month), toNum(r.day), "T">>,
   dateYmd |-> <<toNum(r.year), toNum(r.month), toNum(r.day)>>,
   kind |-> IF r.eclipse_type # "" THEN r.eclipse_type
            ELSE IF r.etype # "" THEN r.etype ELSE "P",
   t0TtHours |-> toNum(r.t0),
   deltaTSeconds |-> toNum(r.dt),
   tanF1 |-> toNum(r.tan_f1),
   tanF2 |-> toNum(r.tan_f2),
   x |-> <<toNum(r.x0), toNum(r.x1), toNum(r.x2), toNum(r.x3)>>,
   y |-> <<toNum(r.y0), toNum(r.y1), toNum(r.y2), toNum(r.y3)>>,
   d |-> <<toNum(r.d0), toNum(r.d1), toNum(r.d2)>>,
   mu |-> <<toNum(r.mu0), toNum(r.mu1), toNum(r.mu2)>>,
   l1 |-> <<toNum(r.l10), toNum(r.l11), toNum(r.l12)>>,
   l2 |-> <<toNum(r.l20), toNum(r.l21), toNum(r.l22)>>,
   greatestEclipseLatDeg |->
     IF isFinite(toNum(r.lat_dd_ge)) THEN Some(toNum(r.lat_dd_ge)) ELSE None,
   greatestEclipseLonDeg |->
     IF isFinite(toNum(r.lng_dd_ge)) THEN Some(toNum(r.lng_dd_ge)) ELSE None]

everyFinite(nums) == \A i \in 1..Len(nums) : isFinite(nums[i])

coreNums(c) ==
  <<c.t0TtHours, c.deltaTSeconds, c.tanF1, c.tanF2>>
    \o c.x \o c.y \o c.d \o c.mu \o c.l1 \o c.l2

cleaned(catalog) == SelectSeq(catalog, LAMBDA c : everyFinite(coreNums(c)))

buildCatalog(rows) == cleaned([i \in 1..Len(rows) |-> catalogRecord(rows[i])])

(* a row of the day `day` with every cell a number *)
csvRow(day) ==
  [year |-> <<2024>>, month |-> <<4>>, day |-> <<day>>,
   eclipse_type |-> "T", etype |-> "",
   lat_dd_ge |-> <<25>>, lng_dd_ge |-> <<-104>>,
   t0 |-> <<18>>, dt |-> <<69>>, tan_f1 |-> <<1>>, tan_f2 |-> <<1>>,
   x0 |-> <<0>>, x1 |-> <<1>>, x2 |-> <<0>>, x3 |-> <<0>>,
   y0 |-> <<1>>, y1 |-> <<0>>, y2 |-> <<0>>, y3 |-> <<0>>,
   d0 |-> <<7>>, d1 |-> <<0>>, d2 |-> <<0>>,
   mu0 |-> <<89>>, mu1 |-> <<15>>, mu2 |-> <<0>>,
   l10 |-> <<1>>, l11 |-> <<0>>, l12 |-> <<0>>,
   l20 |-> <<-1>>, l21 |-> <<0>>, l22 |-> <<0>>]

(* cells: empty, text that is not a number, "Infinity", a missing column  *)
OddCells == { <<>>, <<NaN>>, <<Infinity>>, undefined }

(* the rows of the day `day`: the full one, and it with one cell odd *)
CsvRows(day) ==
  {csvRow(day)}
    \cup { [csvRow(day) EXCEPT ![col] = v] :
             col \in CoreColumns \cup {"lat_dd_ge", "lng_dd_ge"}, v \in OddCells }

CsvFiles ==
  { <<r>> : r \in CsvRows(1) } \cup { <<csvRow(1), r>> : r \in CsvRows(2) }

InitCatalogBuild ==
  /\ e \in { [fn |-> "build_catalog_json", rows |-> rows] : rows \in CsvFiles }
  /\ o = None
  /\ pc = "call"
  /\ result = [outcome |-> "pending"]

BuildCatalog ==
  /\ pc = "call"
  /\ e.fn = "build_catalog_json"
  /\ result' = [outcome |-> "written", catalog |-> buildCatalog(e.rows)]
  /\ pc' = "done"
  /\ UNCHANGED <<e, o>>

NextCatalogBuild == BuildCatalog

SpecCatalogBuild == InitCatalogBuild /\ [][NextCatalogBuild]_vars

----------------------------------------------------------------------------
(* C19, as claimed: a row is written to the catalog only if each of its   *)
(* core cells is there, is not empty and is the text of a finite number.  *)

catalogWritten == pc = "done" /\ result.outcome = "written"

(* the row of the day `day` is in the written catalog *)
rowWritten(day) ==
  \E j \in 1..Len(result.catalog) : result.catalog[j].dateYmd[3] = day

properCell(v) == v # undefined /\ v # <<>> /\ isFinite(v[1])

C19_AsClaimed ==
  catalogWritten =>
    \A i \in 1..Len(e.rows) :
      rowWritten(i) => \A col \in CoreColumns : properCell(e.rows[i][col])

(* what the code keeps: a row is written exactly when toNum is finite on  *)
(* each core cell, the empty cell counting as 0                           *)
C19_FiniteAfterToNum ==
  catalogWritten =>
    \A i \in 1..Len(e.rows) :
      rowWritten(i) <=>
        \A col \in CoreColumns :
          e.rows[i][col] = <<>> \/ properCell(e.rows[i][col])

----------------------------------------------------------------------------
(* C20: C1 is the smallest penumbral root when there is one and undefined *)
(* otherwise, C4 the largest when there are at least two and undefined    *)
(* otherwise; C2 and C3 likewise from the umbral roots; visible is true   *)
(* exactly when C1 and C4 both exist.                                     *)

smallestOf(roots, c) ==
  /\ \E i \in 1..Len(roots) : roots[i] = c
  /\ \A i \in 1..Len(roots) : c <= roots[i]

largestOf(roots, c) ==
  /\ \E i \in 1..Len(roots) : roots[i] = c
  /\ \A i \in 1..Len(roots) : roots[i] <= c

firstContact(roots, c) ==
  IF Len(roots) >= 1 THEN present(c) /\ smallestOf(roots, c[1]) ELSE ~present(c)

lastContact(roots, c) ==
  IF Len(roots) >= 2 THEN present(c) /\ largestOf(roots, c[1]) ELSE ~present(c)

C20_ContactsFromRoots ==
  returned =>
    /\ firstContact(penRoots, contacts.c1)
    /\ lastContact(penRoots, contacts.c4)
    /\ firstContact(umbRoots, contacts.c2)
    /\ lastContact(umbRoots, contacts.c3)
    /\ result.visible <=> (present(contacts.c1) /\ present(contacts.c4))

(* one penumbral root only: C1 without C4, and not visible *)
C20_Witness ==
  /\ returned
  /\ Len(penRoots) = 1
  /\ present(contacts.c1)
  /\ ~present(contacts.c4)
  /\ ~result.visible
  /\ Len(umbRoots) >= 2
  /\ present(contacts.c3)

----------------------------------------------------------------------------
(* C21: for every sample point s of the scan, the first and the last one  *)
(* included, at which f is exactly zero, findBrackets returns the bracket *)
(* [s - step/2, s + step/2] with fa and fb the values of f at its ends.   *)

samplePoints == { t \in e.tStart..e.tEnd : (t - e.tStart) % e.step = 0 }

exactBracketAt(s) ==
  \E i \in 1..Len(result.brackets) :
    /\ result.brackets[i].a = s - half(e.step)
    /\ result.brackets[i].b = s + half(e.step)
    /\ result.brackets[i].fa = e.f[s - half(e.step)]
    /\ result.brackets[i].fb = e.f[s + half(e.step)]

C21_AsClaimed ==
  bracketed =>
    \A s \in samplePoints : e.f[s] = 0 => exactBracketAt(s)

(* what the loop does: a zero at a sample is reported when a next sample  *)
(* exists within the window and f is finite there                         *)
C21_ZeroBeforeFiniteSample ==
  bracketed =>
    \A s \in samplePoints :
      (e.f[s] = 0 /\ s + e.step <= e.tEnd /\ isFinite(e.f[s + e.step]))
        => exactBracketAt(s)

----------------------------------------------------------------------------
(* C22: the samples tStart, tStart + step, ... run until one is at or     *)
(* past tEnd, so every strict sign change of f between two consecutive    *)
(* samples that happens before tEnd is returned as a bracket, also when   *)
(* the window is not a whole number of steps.                             *)

signChangeAt(s) ==
  /\ isFinite(e.f[s])
  /\ isFinite(e.f[s + e.step])
  /\ e.f[s] * e.f[s + e.step] < 0

(* the change of sign has happened by the end of the window *)
changedByEnd(s) ==
  s + e.step > e.tEnd => (isFinite(e.f[e.tEnd]) /\ e.f[s] * e.f[e.tEnd] < 0)

changeBracketAt(s) ==
  \E i \in 1..Len(result.brackets) :
    result.brackets[i] = [a |-> s, b |-> s + e.step, fa |-> e.f[s], fb |-> e.f[s + e.step]]

C22_AsClaimed ==
  bracketed =>
    \A s \in samplePoints :
      (s < e.tEnd /\ signChangeAt(s) /\ changedByEnd(s)) => changeBracketAt(s)

(* what the loop does: the sign changes between samples that both lie     *)
(* within the window are returned                                         *)
C22_WithinWindow ==
  bracketed =>
    \A s \in samplePoints : (s + e.step <= e.tEnd /\ signChangeAt(s)) => changeBracketAt(s)

----------------------------------------------------------------------------
(* The cached lookup of solveContacts.  One computeCircumstances call is  *)
(* followed lookup by lookup: result.todo holds the instants the solver   *)
(* has still to ask metricsAt for, in the order of the code, result.cache *)
(* is metricsCache (None where the Map has no entry) and result.evals the *)
(* instants evaluateShadowMetricsAtT has been called at, in order.        *)

(* the instants findBrackets asks f at: each sample, and the two half     *)
(* steps around an exact hit                                              *)
RECURSIVE bracketLookups(_, _, _, _, _)
bracketLookups(f, prevT, tEnd, step, asked) ==
  LET t == prevT + step
  IN IF t > tEnd THEN asked
     ELSE bracketLookups(f, t, tEnd, step,
            IF isFinite(f[prevT]) /\ isFinite(f[t]) /\ f[prevT] = 0
            THEN asked \o <<t, prevT - half(step), prevT + half(step)>>
            ELSE Append(asked, t))

(* the instants bisectRoot asks f at, over the brackets from the i-th on:  *)
(* the two ends of a bracket, then the midpoints                          *)
RECURSIVE bisectLookups(_, _, _)
bisectLookups(f, brackets, i) ==
  IF i > Len(brackets) THEN <<>>
  ELSE <<brackets[i].a, brackets[i].b>>
       \o bisectRun(f, brackets[i].a, brackets[i].b, tol, maxIterDefault).mids
       \o bisectLookups(f, brackets, i + 1)

(* the instants a scan from a to b asks at *)
RECURSIVE scanLookups(_, _, _)
scanLookups(t, b, step) ==
  IF t > b THEN <<>> ELSE <<t>> \o scanLookups(t + step, b, step)

(* every lookup of solveContacts, s being what it returns *)
lookupsOf(metricsAt, s) ==
  LET rootLookups(f) ==
        bracketLookups(f, tMin, tMax, stepBracket, <<tMin>>)
        \o bisectLookups(f, findBrackets(f, tMin, tMax, stepBracket), 1)
  IN
  rootLookups([t \in Grid |-> metricsAt[t].penumbra])
  \o rootLookups([t \in Grid |-> metricsAt[t].umbraAbs])
  \o (IF s.debug.branch = "umbral"
      THEN scanLookups(s.contacts.c2[1], s.contacts.c3[1], stepFine)
      ELSE IF s.debug.branch = "penumbral"
      THEN scanLookups(s.contacts.c1[1], s.contacts.c4[1], stepFine)
      ELSE scanLookups(tMin, tMax, stepBracket))
  \o <<s.contacts.max[1]>>

(* on the records with proper cones whose shadow axis is at the origin of *)
(* the fundamental plane at t0                                            *)
InitCache ==
  /\ e \in { r \in GeometryRecords :
               r.tanF1 = 1 /\ r.tanF2 = 1 /\ r.y[1] = 0 /\ r.x[1] = 0 }
  /\ o \in Observers
  /\ pc = "solving"
  /\ \E s \in {solveContacts(e, o)} :
       result = [outcome |-> "solving",
                 todo |-> lookupsOf([t \in Grid |-> evaluateShadowMetricsAtT(e, o, t)], s),
                 cache |-> [t \in Grid |-> None],
                 evals |-> <<>>,
                 asked |-> None,
                 got |-> None]

(* a lookup that evaluates and forgets *)
MetricsAtUncached ==
  /\ pc = "solving"
  /\ result.todo # <<>>
  /\ LET t == Head(result.todo)
     IN result' = [result EXCEPT !.todo = Tail(@), !.asked = Some(t),
                                 !.got = Some(evaluateShadowMetricsAtT(e, o, t)),
                                 !.evals = Append(@, t)]
  /\ UNCHANGED <<e, o, pc>>

(* metricsAt(t) for the next instant the solver asks for *)
MetricsAt ==
  /\ pc = "solving"
  /\ result.todo # <<>>
  /\ LET t == Head(result.todo)
         cached == result.cache[t]
         next == evaluateShadowMetricsAtT(e, o, t)
     IN result' =
          IF cached # None
          THEN [result EXCEPT !.todo = Tail(@), !.asked = Some(t), !.got = cached]
          ELSE [result EXCEPT !.todo = Tail(@), !.asked = Some(t), !.got = Some(next),
                              !.cache[t] = Some(next), !.evals = Append(@, t)]
  /\ UNCHANGED <<e, o, pc>>

(* solveContacts has returned, maxEval being what its last lookup gave    *)
(* and contacts.max the instant of that lookup: computeCircumstances      *)
(* evaluates once more, past the cache, when it was handed no maxEval     *)
SolveReturns ==
  /\ pc = "solving"
  /\ result.todo = <<>>
  /\ LET maxEval == result.got
         max == result.asked
     IN result' =
          IF maxEval # None THEN result
          ELSE [result EXCEPT !.evals =
                  Append(@, IF isNumber(max) /\ isFinite(max[1]) THEN max[1] ELSE 0)]
  /\ pc' = "done"
  /\ UNCHANGED <<e, o>>

SpecCache == InitCache /\ [][MetricsAt \/ SolveReturns]_vars

(* C23: within one computeCircumstances call the per-instant evaluation   *)
(* runs at most once for each instant, whichever of bracketing,           *)
(* bisection, the fine scan and the fallback scan of either metric asks,  *)
(* and every lookup returns what a fresh evaluation at that instant gives.*)

caching == result.outcome = "solving"

C23_EvaluatedOnce ==
  caching =>
    /\ \A i, j \in 1..Len(result.evals) : result.evals[i] = result.evals[j] => i = j
    /\ result.asked # None =>
         result.got = Some(evaluateShadowMetricsAtT(e, o, result.asked[1]))

(* an instant that was already in the cache has been asked for again, and *)
(* the call has come to its end                                           *)
C23_Witness ==
  /\ caching
  /\ pc = "done"
  /\ Len(result.evals) >= 3
  /\ \E t \in Grid : result.cache[t] # None /\ result.asked = Some(t)
                        /\ result.evals[Len(result.evals)] # t

----------------------------------------------------------------------------
(* apps/mobile/src/hooks/useTimerState.ts: the compute task of the timer  *)
(* screen.  e is activeEclipse (None for null), pc tells whether the      *)
(* component is mounted, and result holds the hook's state: the React     *)
(* state status, result, isComputing and didComputeFlash, the two refs,   *)
(* the tasks InteractionManager has queued and the flash timeouts that    *)
(* are pending, each known by the run token of its runCompute.  written   *)
(* records the last write to the four states made by a task or by a       *)
(* timeout it set: the token of that task, the token current then, and    *)
(* which of the two wrote.                                                *)

MaxRuns == 3

(* computeRunTokenRef.current += 1; the task of computeTaskRef leaves the *)
(* queue                                                                  *)
cancelPendingCompute(h) ==
  [h EXCEPT !.computeRunToken = @ + 1,
            !.computeTask = None,
            !.queue = IF h.computeTask = None THEN @ ELSE @ \ {h.computeTask[1]}]

InitTimer ==
  /\ e \in {None, Some("e")}
  /\ o = None
  /\ pc = "mounted"
  /\ result = [outcome |-> "timer",
               status |-> "Ready",
               result |-> None,
               isComputing |-> FALSE,
               didComputeFlash |-> FALSE,
               computeRunToken |-> 0,
               computeTask |-> None,
               queue |-> {},
               timeouts |-> {},
               written |-> None]

RunCompute ==
  /\ pc = "mounted"
  /\ result.computeRunToken < MaxRuns
  /\ IF e = None
     THEN result' = [result EXCEPT !.status = "Select an eclipse"]
     ELSE LET h == cancelPendingCompute(result)
              runToken == h.computeRunToken
          IN result' = [h EXCEPT !.isComputing = TRUE,
                                 !.didComputeFlash = FALSE,
                                 !.status = "Queueing",
                                 !.computeTask = Some(runToken),
                                 !.queue = @ \cup {runToken}]
  /\ UNCHANGED <<e, o, pc>>

(* InteractionManager runs a queued task; computeCircumstances returns or *)
(* throws                                                                 *)
ComputeTask ==
  /\ \E runToken \in result.queue, out \in {"out", "throws"} :
       LET h == [result EXCEPT !.queue = @ \ {runToken}]
           wrote == Some([by |-> runToken, at |-> h.computeRunToken, from |-> "task"])
       IN result' =
            IF h.computeRunToken # runToken THEN h
            ELSE IF out = "out"
            THEN [h EXCEPT !.result = Some(<<"out", runToken>>),
                           !.status = "Computed",
                           !.didComputeFlash = TRUE,
                           !.timeouts = @ \cup {runToken},
                           !.computeTask = None,
                           !.isComputing = FALSE,
                           !.written = wrote]
            ELSE [h EXCEPT !.status = "Compute error",
                           !.result = None,
                           !.computeTask = None,
                           !.isComputing = FALSE,
                           !.written = wrote]
  /\ UNCHANGED <<e, o, pc>>

(* setTimeout(() => setDidComputeFlash(false), 800) comes due *)
FlashTimeout ==
  /\ \E runToken \in result.timeouts :
       result' = [result EXCEPT !.timeouts = @ \ {runToken},
                                !.didComputeFlash = FALSE,
                                !.written = Some([by |-> runToken,
                                                  at |-> result.computeRunToken,
                                                  from |-> "timeout"])]
  /\ UNCHANGED <<e, o, pc>>

(* the navigator calls it when another eclipse is selected *)
ResetForNewEclipse ==
  /\ pc = "mounted"
  /\ result.computeRunToken < MaxRuns
  /\ result' = [cancelPendingCompute(result) EXCEPT !.isComputing = FALSE,
                                                    !.didComputeFlash = FALSE,
                                                    !.result = None,
                                                    !.status = "Ready"]
  /\ e' \in {None, Some("e")}
  /\ UNCHANGED <<o, pc>>

(* the cleanup of the effect *)
Unmount ==
  /\ pc = "mounted"
  /\ result' = cancelPendingCompute(result)
  /\ pc' = "unmounted"
  /\ UNCHANGED <<e, o>>

SpecTimer ==
  InitTimer
  /\ [][RunCompute \/ ComputeTask \/ FlashTimeout \/ ResetForNewEclipse \/ Unmount]_vars

(* C24: a compute task that a later runCompute, resetForNewEclipse or     *)
(* the unmount has superseded never writes result, status,                *)
(* didComputeFlash or isComputing: whatever a task or a timeout it set    *)
(* writes, it writes while its run token is the current one.              *)

timerState == result.outcome = "timer"

C24_AsClaimed ==
  (timerState /\ result.written # None) =>
    result.written[1].by = result.written[1].at

(* what the token guards give: the task itself writes only while its     *)
(* token is the current one, and the only task ever queued is that of the *)
(* current token, with isComputing set                                    *)
C24_TaskOfCurrentToken ==
  timerState =>
    /\ (result.written # None /\ result.written[1].from = "task")
         => result.written[1].by = result.written[1].at
    /\ result.queue \subseteq {result.computeRunToken}
    /\ result.queue # {} => (result.isComputing /\ result.status = "Queueing"
                                /\ result.computeTask = Some(result.computeRunToken))

----------------------------------------------------------------------------
(* C26: in the penumbra envelope every bucket that tracing left empty is  *)
(* filled by interpolating between the nearest buckets before and after   *)
(* it, cyclically, that were non-empty after tracing, at the fraction     *)
(* given by its position in the gap; the buckets that tracing filled are  *)
(* left as they were.                                                     *)

envelopeBuilt ==
  pc = "done" /\ result.outcome = "buildVisiblePolygon" /\ Len(e.outlines) > 0

bucketIndexes == 0..(BEARING_SAMPLES_VISIBLE - 1)

tracedIndexes == { j \in bucketIndexes : result.built.traced[j + 1] # None }

(* the point the claim gives bucket i, from the buckets as tracing left   *)
(* them                                                                   *)
interpolatedFromTraced(i) ==
  LET n == BEARING_SAMPLES_VISIBLE
      dPrev == CHOOSE d \in 1..n : ((i - d + n) % n) \in tracedIndexes
                 /\ \A d2 \in 1..(d - 1) : ((i - d2 + n) % n) \notin tracedIndexes
      dNext == CHOOSE d \in 1..n : ((i + d) % n) \in tracedIndexes
                 /\ \A d2 \in 1..(d - 1) : ((i + d2) % n) \notin tracedIndexes
  IN sphericalInterp(result.built.traced[((i - dPrev + n) % n) + 1][1].pt,
                     result.built.traced[((i + dNext) % n) + 1][1].pt,
                     dPrev, dPrev + dNext)

C26_AsClaimed ==
  envelopeBuilt =>
    \A i \in bucketIndexes :
      IF i \in tracedIndexes
      THEN result.built.buckets[i + 1] = result.built.traced[i + 1]
      ELSE tracedIndexes # {} =>
             /\ result.built.buckets[i + 1] # None
             /\ result.built.buckets[i + 1][1].pt = interpolatedFromTraced(i)

(* the nearest bucket before i, cyclically, that tracing filled *)
tracedBefore(i) ==
  LET n == BEARING_SAMPLES_VISIBLE
      d == CHOOSE k \in 1..n : ((i - k + n) % n) \in tracedIndexes
             /\ \A k2 \in 1..(k - 1) : ((i - k2 + n) % n) \notin tracedIndexes
  IN (i - d + n) % n

(* what the loop does: the buckets it fills become neighbours of the ones *)
(* it fills later, so only the first bucket it reaches in each gap, and   *)
(* the traced ones, are as claimed                                        *)
C26_FirstReachedOfGap ==
  envelopeBuilt =>
    \A i \in bucketIndexes :
      IF i \in tracedIndexes
      THEN result.built.buckets[i + 1] = result.built.traced[i + 1]
      ELSE (/\ tracedIndexes # {}
            /\ \A j \in 0..(i - 1) :
                 j \notin tracedIndexes => tracedBefore(j) # tracedBefore(i)) =>
             /\ result.built.buckets[i + 1] # None
             /\ result.built.buckets[i + 1][1].pt = interpolatedFromTraced(i)

----------------------------------------------------------------------------
(* C30: buildVisiblePolygon returns no polygon, or one polygon that has   *)
(* one vertex for each of the BEARING_SAMPLES_VISIBLE buckets, in bucket  *)
(* order: after the fill every bucket is non-empty when tracing put a     *)
(* point into at least one, and none is otherwise.                        *)

C30_AllOrNone ==
  envelopeBuilt =>
    /\ tracedIndexes # {} =>
         /\ \A i \in bucketIndexes : result.built.buckets[i + 1] # None
         /\ Len(result.built.polygons) = 1
         /\ Len(result.built.polygons[1]) = BEARING_SAMPLES_VISIBLE
         /\ \A i \in bucketIndexes :
              result.built.polygons[1][i + 1] = result.built.buckets[i + 1][1].pt
    /\ tracedIndexes = {} =>
         /\ \A i \in bucketIndexes : result.built.buckets[i + 1] = None
         /\ result.built.polygons = <<>>

(* tracing has put points into one bucket only, and the polygon has a     *)
(* vertex for every bucket                                                *)
C30_Witness ==
  /\ envelopeBuilt
  /\ Cardinality(tracedIndexes) = 1
  /\ Len(result.built.polygons) = 1
  /\ Len(result.built.polygons[1]) = BEARING_SAMPLES_VISIBLE

----------------------------------------------------------------------------
(* The catalog loader (packages/catalog/src/index.ts).  An id is a pair   *)
(* <<year, rest>>, the year being what Number() makes of its first four   *)
(* characters.  e is the bundle the module runs in: the ids of the        *)
(* catalog, and for each decade that has a loader whether its chunk file  *)
(* loads or the require throws.  result holds the module's state: the     *)
(* two caches (None where a Map has no entry; a chunk is the set of the   *)
(* ids it has overlays for), how often each loader was invoked and each   *)
(* warning given, the ids asked for so far and what the last call         *)
(* returned.                                                              *)

MaxCalls == 3

LoaderDecades == {1990, 2020}

CatalogIds == { <<1995, "a">>, <<1999, "b">>, <<2024, "a">>, <<2150, "a">>, <<NaN, "a">> }

(* the overlays the generated chunk files hold *)
chunkOf(decade) == { id \in {<<1995, "a">>, <<2024, "a">>} : (id[1] \div 10) * 10 = decade }

getDecadeBucketFromId(id) ==
  IF ~isFinite(id[1]) THEN None ELSE Some((id[1] \div 10) * 10)

(* a lookup that caches nothing when the loader throws *)
getOverlayChunkForIdForgetful(h, loaders, id) ==
  LET decade == getDecadeBucketFromId(id)
  IN IF decade = None THEN [h |-> h, chunk |-> None]
     ELSE IF decade[1] \notin LoaderDecades THEN [h |-> h, chunk |-> None]
     ELSE IF h.overlayChunkCache[decade[1]] # None
     THEN [h |-> h, chunk |-> h.overlayChunkCache[decade[1]]]
     ELSE IF loaders[decade[1]] = "loads"
     THEN [h |-> [h EXCEPT !.invoked[decade[1]] = @ + 1,
                           !.overlayChunkCache[decade[1]] = Some(chunkOf(decade[1]))],
           chunk |-> Some(chunkOf(decade[1]))]
     ELSE [h |-> [h EXCEPT !.invoked[decade[1]] = @ + 1,
                           !.warned[decade[1]] = @ + 1],
           chunk |-> Some({})]

(* the state after the lookup, and the chunk it returns (None for null) *)
getOverlayChunkForId(h, loaders, id) ==
  LET decade == getDecadeBucketFromId(id)
  IN IF decade = None THEN [h |-> h, chunk |-> None]
     ELSE IF h.overlayChunkCache[decade[1]] # None
     THEN [h |-> h, chunk |-> h.overlayChunkCache[decade[1]]]
     ELSE IF decade[1] \notin LoaderDecades THEN [h |-> h, chunk |-> None]
     ELSE IF loaders[decade[1]] = "loads"
     THEN [h |-> [h EXCEPT !.invoked[decade[1]] = @ + 1,
                           !.overlayChunkCache[decade[1]] = Some(chunkOf(decade[1]))],
           chunk |-> Some(chunkOf(decade[1]))]
     ELSE [h |-> [h EXCEPT !.invoked[decade[1]] = @ + 1,
                           !.warned[decade[1]] = @ + 1,
                           !.overlayChunkCache[decade[1]] = Some({})],
           chunk |-> Some({})]

InitLoader ==
  /\ e \in { [catalog |-> CatalogIds, loaders |-> l] :
               l \in [LoaderDecades -> {"loads", "throws"}] }
  /\ o = None
  /\ pc = "loaded"
  /\ result = [outcome |-> "loader",
               overlayChunkCache |-> [d \in LoaderDecades \cup {2150} |-> None],
               hydratedCatalogById |-> {},
               invoked |-> [d \in LoaderDecades |-> 0],
               warned |-> [d \in LoaderDecades |-> 0],
               asked |-> <<>>,
               returned |-> None]

(* loadCatalogEntryWithOverlays(id); what it returns is None for          *)
(* undefined, else the record's id and whether it carries overlays        *)
LoadCatalogEntryWithOverlays ==
  /\ Len(result.asked) < MaxCalls
  /\ \E id \in CatalogIds \cup {<<1999, "x">>} :
       LET h == [result EXCEPT !.asked = Append(@, id)]
           looked == getOverlayChunkForId(h, e.loaders, id)
       IN result' =
            IF id \in h.hydratedCatalogById
            THEN [h EXCEPT !.returned = Some([id |-> id, overlays |-> TRUE])]
            ELSE IF id \notin e.catalog
            THEN [h EXCEPT !.returned = None]
            ELSE IF looked.chunk = None \/ id \notin looked.chunk[1]
            THEN [looked.h EXCEPT !.returned = Some([id |-> id, overlays |-> FALSE])]
            ELSE [looked.h EXCEPT !.hydratedCatalogById = @ \cup {id},
                                  !.returned = Some([id |-> id, overlays |-> TRUE])]
  /\ UNCHANGED <<e, o, pc>>

SpecLoader == InitLoader /\ [][LoadCatalogEntryWithOverlays]_vars

(* C28: over any sequence of loadCatalogEntryWithOverlays calls the chunk *)
(* loader of a decade is invoked at most once.  A loader that throws is   *)
(* not retried: the failure is warned about once and cached as an empty   *)
(* chunk, and every call for a catalog id of that decade returns the      *)
(* plain record, without overlays.                                        *)

loaderState == result.outcome = "loader"

lastAsked == result.asked[Len(result.asked)]

C28_LoadedOnce ==
  loaderState =>
    /\ \A d \in LoaderDecades :
         /\ result.invoked[d] <= 1
         /\ result.warned[d] <= 1
         /\ (result.invoked[d] = 1 /\ e.loaders[d] = "loads")
              => (result.warned[d] = 0 /\ result.overlayChunkCache[d] = Some(chunkOf(d)))
         /\ (result.invoked[d] = 1 /\ e.loaders[d] = "throws")
              => (result.warned[d] = 1 /\ result.overlayChunkCache[d] = Some({}))
    /\ (/\ result.asked # <<>>
        /\ lastAsked \in e.catalog
        /\ getDecadeBucketFromId(lastAsked) # None
        /\ getDecadeBucketFromId(lastAsked)[1] \in LoaderDecades
        /\ e.loaders[getDecadeBucketFromId(lastAsked)[1]] = "throws")
         => result.returned = Some([id |-> lastAsked, overlays |-> FALSE])

(* three calls for catalog ids of a decade whose loader throws *)
C28_Witness ==
  /\ loaderState
  /\ e.loaders[1990] = "throws"
  /\ result.asked = << <<1995, "a">>, <<1999, "b">>, <<1995, "a">> >>
  /\ result.invoked[1990] = 1
  /\ result.returned = Some([id |-> <<1995, "a">>, overlays |-> FALSE])

----------------------------------------------------------------------------
(* C25: the band of buildBandPolygon.  Right is the side of the lowest    *)
(* projection on the perpendicular of the sweep and left the side of the  *)
(* highest, as in the code's edges.  The band holds, in this order: for   *)
(* each frame in time order its leftmost point; the points of the last    *)
(* frame (trailing cap); for each frame in reverse time order its         *)
(* rightmost point; the points of the first frame from right to left      *)
(* (leading cap).                                                         *)

bandBuilt ==
  pc = "done" /\ result.outcome = "buildBandPolygon" /\ result.built.perp # None

bandFrames == Len(result.built.valid)

bandScore(f, p) ==
  perpScore(p, outlineCenter(result.built.valid[f].points), result.built.perp[1])

(* the band's part of n points after its first k *)
bandPart(k, n) == SubSeq(result.built.band, k + 1, k + n)

bandTrailingCap == bandPart(bandFrames, Len(result.built.valid[bandFrames].points))

bandLeadingCap ==
  bandPart(2 * bandFrames + Len(result.built.valid[bandFrames].points),
           Len(result.built.valid[1].points))

bandEdgesAndPoints ==
  /\ Len(result.built.band) = 2 * bandFrames + Len(result.built.valid[1].points)
                                + Len(result.built.valid[bandFrames].points)
  /\ \A f \in 1..(bandFrames - 1) : result.built.valid[f].t <= result.built.valid[f + 1].t
  /\ \A f \in 1..bandFrames :
       LET pts == result.built.valid[f].points
           leftPt == result.built.band[f]
           rightPt == bandPart(bandFrames + Len(result.built.valid[bandFrames].points),
                               bandFrames)[bandFrames + 1 - f]
       IN /\ \E i \in 1..Len(pts) : pts[i] = leftPt
          /\ \E i \in 1..Len(pts) : pts[i] = rightPt
          /\ \A i \in 1..Len(pts) :
               /\ bandScore(f, pts[i]) <= bandScore(f, leftPt)
               /\ bandScore(f, pts[i]) >= bandScore(f, rightPt)
  /\ { bandTrailingCap[i] : i \in 1..Len(bandTrailingCap) }
       = { result.built.valid[bandFrames].points[i] :
             i \in 1..Len(result.built.valid[bandFrames].points) }
  /\ { bandLeadingCap[i] : i \in 1..Len(bandLeadingCap) }
       = { result.built.valid[1].points[i] : i \in 1..Len(result.built.valid[1].points) }
  /\ \A i \in 1..(Len(bandLeadingCap) - 1) :
       bandScore(1, bandLeadingCap[i]) <= bandScore(1, bandLeadingCap[i + 1])

(* as claimed: the trailing cap runs from right to left *)
C25_AsClaimed ==
  bandBuilt =>
    /\ bandEdgesAndPoints
    /\ \A i \in 1..(Len(bandTrailingCap) - 1) :
         bandScore(bandFrames, bandTrailingCap[i])
           <= bandScore(bandFrames, bandTrailingCap[i + 1])

(* C25, amended: the trailing cap runs from left to right, from the side  *)
(* where the left edge ended to the side where the reversed right edge    *)
(* begins; the rest as claimed.                                           *)
C25_TrailingCapLeftToRight ==
  bandBuilt =>
    /\ bandEdgesAndPoints
    /\ \A i \in 1..(Len(bandTrailingCap) - 1) :
         bandScore(bandFrames, bandTrailingCap[i])
           >= bandScore(bandFrames, bandTrailingCap[i + 1])

(* a band of two frames at different centres, with caps whose points      *)
(* differ in projection                                                   *)
C25_Witness ==
  /\ bandBuilt
  /\ bandFrames = 2
  /\ result.built.perp[1] \notin {<<1, 0>>}
  /\ bandScore(bandFrames, bandTrailingCap[1]) > bandScore(bandFrames, bandTrailingCap[3])
  /\ bandScore(1, bandLeadingCap[1]) < bandScore(1, bandLeadingCap[3])

----------------------------------------------------------------------------
(* C27: in every result of computeCircumstances for a valid date these    *)
(* are equivalent: visible is true; kindAtLocation is partial, total or   *)
(* annular, not "none"; both c1Utc and c4Utc are present.                 *)
C27_VisibleKindContacts ==
  (returned /\ validDate) =>
    /\ result.kindAtLocation \in {"none", "partial", "total", "annular"}
    /\ result.visible <=> result.kindAtLocation # "none"
    /\ result.visible <=> (present(result.c1Utc) /\ present(result.c4Utc))

(* a single penumbral root: a first contact is emitted, without a fourth, *)
(* and the result is not visible                                          *)
C27_Witness ==
  /\ returned
  /\ validDate
  /\ Len(penRoots) = 1
  /\ present(result.c1Utc)
  /\ ~present(result.c4Utc)
  /\ ~result.visible
  /\ result.kindAtLocation = "none"

----------------------------------------------------------------------------
(* C29: in solveContacts every bisectRoot call on a bracket of            *)
(* findBrackets that does not return null returns ok = true, after at     *)
(* most as many iterations as it takes to halve the bracket's width, the  *)
(* scan step, down to the tolerance: the r.ok filter discards no root.    *)
(* For the source's step of 1/60 h and tolerance of 1e-7 h, which are as  *)
(* 10000000 to 60, that number is 19; it is below the default limit.      *)

(* the first iteration, counted from 1, that finds the width within the   *)
(* tolerance, the width halving with each                                 *)
RECURSIVE bisectionsToTolerance(_, _)
bisectionsToTolerance(width, tolerance) ==
  IF width <= tolerance THEN 1 ELSE 1 + bisectionsToTolerance(width, 2 * tolerance)

(* the root results of the penumbral and of the umbral metric *)
rootCallsOf(metric) ==
  LET f == [t \in Grid |-> evaluateShadowMetricsAtT(e, o, t)[metric]]
  IN mapBisect(f, findBrackets(f, tMin, tMax, stepBracket))

solvedContacts == pc = "done"

allRootsKept(rootResults) ==
  /\ \A i \in 1..Len(rootResults) :
       rootResults[i] # None =>
         /\ rootResults[i][1].ok
         /\ rootResults[i][1].iterations <= bisectionsToTolerance(stepBracket, tol)
  /\ Len(rootsOf(rootResults))
       = Cardinality({ i \in 1..Len(rootResults) : rootResults[i] # None })

C29_EveryRootOk ==
  solvedContacts =>
    /\ allRootsKept(rootCallsOf("penumbra"))
    /\ allRootsKept(rootCallsOf("umbraAbs"))
    /\ bisectionsToTolerance(stepBracket, tol) < maxIterDefault
    /\ bisectionsToTolerance(10000000, 60) = 19

(* a penumbral root found by halving the bracket down to the tolerance *)
C29_Witness ==
  /\ solvedContacts
  /\ result.outcome = "returned"
  /\ \E i \in 1..Len(rootCallsOf("penumbra")) :
       /\ rootCallsOf("penumbra")[i] # None
       /\ rootCallsOf("penumbra")[i][1].ok
       /\ rootCallsOf("penumbra")[i][1].iterations = bisectionsToTolerance(stepBracket, tol)
       /\ \E j \in 1..Len(penRoots) : penRoots[j] = rootCallsOf("penumbra")[i][1].tHours

====
